---- MODULE Spec2Model ----
(***************************************************************************)
(* Log viewer of open-codespeak: the tree builder (LogParser.parseContent), *)
(* the live-update channel and document endpoint (LogParserServer) and the  *)
(* client script of the generated document (HtmlGenerator.generateHtml).    *)
(***************************************************************************)
EXTENDS Integers, Sequences, FiniteSets, TLC

(***************************************************************************)
(* Bounds.                                                                  *)
(***************************************************************************)
\* longest run of leading whitespace of an input line
MaxIndent == 2
\* number of lines given to parseContent
MaxLines == 4
\* number of records given to parseContent when their fields are examined
MaxRecords == 2
\* number of lines of the watched file, and the latest request time
MaxFileLines == 2
MaxNow == 4
\* the time window the server was started with, in time units
timeWindowMinutes == 1
\* event-stream connections, and events buffered on one connection
MaxConns == 2
MaxOutbox == 2
\* the documents a page may show: depth and number of their lines
MaxDocDepth == 1
MaxDocLines == 2
\* the documents whose rows are expanded and collapsed: depth and number of lines
MaxNestDepth == 2
MaxNestLines == 3
\* number of parts of a text given to parseAnsiColors, and the length of a
\* text rendered into a data attribute
MaxWindowLines == 3
\* number of changes of the watched file, and of errors of the event stream
MaxChanges == 3
MaxErrors == 2
MaxParts == 4
MaxAttrLen == 5
\* length of the filter text, and the largest scroll offset
MaxFilterLen == 1
MaxScroll == 1

(***************************************************************************)
(* Characters and lines.  A line is a sequence of characters.               *)
(***************************************************************************)
Tab == "\t"
Space == " "
Whitespace == {Tab, Space}

\* all sequences over S of length 0..n
RECURSIVE SeqsUpTo(_, _)
SeqsUpTo(S, n) ==
  IF n = 0 THEN {<<>>}
  ELSE LET shorter == SeqsUpTo(S, n - 1)
       IN  shorter \cup {Append(s, c) : s \in {t \in shorter : Len(t) = n - 1}, c \in S}

\* a character that stands for a whole substring matching timestampRegex
TimestampTokens == {"t1", "t2"}
\* new Date(match[1]) of such a substring
DateOf(tok) == IF tok = "t1" THEN 1 ELSE 2
null == -1

\* line contents after the indentation: no whitespace at either end
Bodies == {<<"a">>, <<"a", "B">>}
\* leading whitespace: a run of tabs, alone or behind one space (at which
\* getIndentLevel stops counting)
Indents ==
  {ind \in SeqsUpTo(Whitespace, MaxIndent) :
     \A i \in 2..Len(ind) : ind[i] = Tab}
\* the non-blank lines a file may hold
Lines == {ind \o body : ind \in Indents, body \in Bodies}

\* String.prototype.trim on a sequence of characters
RECURSIVE TrimLeft(_)
TrimLeft(s) ==
  IF s # <<>> /\ Head(s) \in Whitespace THEN TrimLeft(Tail(s)) ELSE s

RECURSIVE TrimRight(_)
TrimRight(s) ==
  IF s # <<>> /\ s[Len(s)] \in Whitespace THEN TrimRight(SubSeq(s, 1, Len(s) - 1)) ELSE s

Trim(s) == TrimRight(TrimLeft(s))

(***************************************************************************)
(* LogParser                                                                *)
(***************************************************************************)
\* getIndentLevel: the number of leading tab characters
RECURSIVE getIndentLevel(_)
getIndentLevel(line) ==
  IF line # <<>> /\ Head(line) = Tab THEN 1 + getIndentLevel(Tail(line)) ELSE 0

\* extractTimestamp: the first match of timestampRegex in the line, as a Date
RECURSIVE extractTimestamp(_)
extractTimestamp(line) ==
  IF line = <<>> THEN null
  ELSE IF Head(line) \in TimestampTokens THEN DateOf(Head(line))
  ELSE extractTimestamp(Tail(line))

\* removeTimestamp: text.replace(timestampRegex, '').trim() drops the first match
RECURSIVE DropFirstTimestamp(_)
DropFirstTimestamp(text) ==
  IF text = <<>> THEN <<>>
  ELSE IF Head(text) \in TimestampTokens THEN Tail(text)
  ELSE <<Head(text)>> \o DropFirstTimestamp(Tail(text))

removeTimestamp(text) == Trim(DropFirstTimestamp(text))

\* a word of letters is one character of a line; these are the words of the
\* alternation (DEBUG|INFO|WARN|WARNING|ERROR|FATAL|TRACE), matched with /i
Dash == "-"
LevelNames == {"DEBUG", "INFO", "WARN", "WARNING", "ERROR", "FATAL", "TRACE"}
toUpperCase(w) == IF w = "info" THEN "INFO" ELSE IF w = "warn" THEN "WARN" ELSE w

\* the length of the run of \s characters of s that starts at position i
RECURSIVE WsRun(_, _)
WsRun(s, i) ==
  IF i <= Len(s) /\ s[i] \in Whitespace THEN 1 + WsRun(s, i + 1) ELSE 0

\* the class [a-zA-Z0-9._-]: a timestamp holds ':' and is outside of it
InLoggerClass(ch) == ch \notin Whitespace /\ ch \notin TimestampTokens

\* the length of the run of [a-zA-Z0-9._-] characters that starts at position i
RECURSIVE ClassRun(_, _)
ClassRun(s, i) ==
  IF i <= Len(s) /\ InLoggerClass(s[i]) THEN 1 + ClassRun(s, i + 1) ELSE 0

\* the length of the match of \s+-\s+ at position i of s, 0 when there is none
SeparatorAt(s, i) ==
  LET w1 == WsRun(s, i)
      w2 == WsRun(s, i + w1 + 1)
  IN  IF w1 >= 1 /\ i + w1 <= Len(s) /\ s[i + w1] = Dash /\ w2 >= 1
      THEN w1 + 1 + w2 ELSE 0

\* extractLogLevel: /^-\s+(DEBUG|...|TRACE)\s+-\s+/i on the text without timestamp
extractLogLevel(text) ==
  LET textWithoutTimestamp == removeTimestamp(text)
      w1 == WsRun(textWithoutTimestamp, 2)
      sep == SeparatorAt(textWithoutTimestamp, 3 + w1)
      matched == /\ Len(textWithoutTimestamp) >= 1
                 /\ textWithoutTimestamp[1] = Dash
                 /\ w1 >= 1
                 /\ 2 + w1 <= Len(textWithoutTimestamp)
                 /\ toUpperCase(textWithoutTimestamp[2 + w1]) \in LevelNames
                 /\ sep >= 1
  IN  IF matched
      THEN [level |-> toUpperCase(textWithoutTimestamp[2 + w1]),
            textWithoutLevel |->
              Trim(SubSeq(textWithoutTimestamp, 3 + w1 + sep, Len(textWithoutTimestamp)))]
      ELSE [level |-> "null", textWithoutLevel |-> textWithoutTimestamp]

\* extractLoggerName: /^([a-zA-Z0-9._-]+)\s+-\s+/ on the text without level;
\* a match holds one character at least, so <<>> stands for loggerName: null
extractLoggerName(text) ==
  LET logLevelInfo == extractLogLevel(text)
      rest == logLevelInfo.textWithoutLevel
      run == ClassRun(rest, 1)
      sep == SeparatorAt(rest, run + 1)
  IN  IF run >= 1 /\ sep >= 1
      THEN [loggerName |-> SubSeq(rest, 1, run),
            textWithoutLogger |-> Trim(SubSeq(rest, run + sep + 1, Len(rest)))]
      ELSE [loggerName |-> <<>>, textWithoutLogger |-> rest]

\* generateStableId: a digest of the text alone (the digest is modelled as
\* collision free: the tagged text stands for its SHA-256 prefix)
generateStableIdWithTime(text, timestamp) == <<"sha256", text, timestamp>>

generateStableId(text, timestamp) == <<"sha256", text>>

\* The forest is kept as an arena: nodes[i] is the entry made from the i-th
\* processed line, children and roots are sequences of arena indices.
NoForest == [nodes |-> <<>>, entries |-> <<>>, stack |-> <<>>]

\* while (stack.length > 0 && stack[stack.length - 1].level >= level) stack.pop()
RECURSIVE PopStackStrict(_, _, _)
PopStackStrict(nodes, stack, level) ==
  IF Len(stack) > 0 /\ nodes[stack[Len(stack)]].level > level
  THEN PopStackStrict(nodes, SubSeq(stack, 1, Len(stack) - 1), level)
  ELSE stack

PopStackOnce(nodes, stack, level) ==
  IF Len(stack) > 0 /\ nodes[stack[Len(stack)]].level >= level
  THEN SubSeq(stack, 1, Len(stack) - 1)
  ELSE stack

RECURSIVE PopStack(_, _, _)
PopStack(nodes, stack, level) ==
  IF Len(stack) > 0 /\ nodes[stack[Len(stack)]].level >= level
  THEN PopStack(nodes, SubSeq(stack, 1, Len(stack) - 1), level)
  ELSE stack

\* stack[stack.length - 1].children.push(entry)
PushChildFirst(nodes, parent, idx) ==
  [nodes EXCEPT ![parent].children = <<idx>> \o @]

PushChild(nodes, parent, idx) ==
  [nodes EXCEPT ![parent].children = Append(@, idx)]

\* one iteration of the for loop of parseContent
ParseLineSkipsUndated(f, line) ==
  LET level == getIndentLevel(line)
      text == Trim(SubSeq(line, level + 1, Len(line)))
      idx == Len(f.nodes) + 1
      entry == [text |-> extractLoggerName(text).textWithoutLogger,
                originalText |-> text,
                level |-> level,
                logLevel |-> extractLogLevel(text).level,
                loggerName |-> extractLoggerName(text).loggerName,
                children |-> <<>>,
                timestamp |-> extractTimestamp(text),
                id |-> generateStableId(text, extractTimestamp(text))]
      popped == PopStack(f.nodes, f.stack, level)
      added == Append(f.nodes, entry)
  IN  IF text = <<>> \/ extractTimestamp(text) = null THEN f
      ELSE IF Len(popped) = 0
           THEN [nodes |-> added,
                 entries |-> Append(f.entries, idx),
                 stack |-> Append(popped, idx)]
           ELSE [nodes |-> PushChild(added, popped[Len(popped)], idx),
                 entries |-> f.entries,
                 stack |-> Append(popped, idx)]

ParseLine(f, line) ==
  LET level == getIndentLevel(line)
      text == Trim(SubSeq(line, level + 1, Len(line)))
      idx == Len(f.nodes) + 1
      entry == [text |-> extractLoggerName(text).textWithoutLogger,
                originalText |-> text,
                level |-> level,
                logLevel |-> extractLogLevel(text).level,
                loggerName |-> extractLoggerName(text).loggerName,
                children |-> <<>>,
                timestamp |-> extractTimestamp(text),
                id |-> generateStableId(text, extractTimestamp(text))]
      popped == PopStack(f.nodes, f.stack, level)
      added == Append(f.nodes, entry)
  IN  IF text = <<>> THEN f
      ELSE IF Len(popped) = 0
           THEN [nodes |-> added,
                 entries |-> Append(f.entries, idx),
                 stack |-> Append(popped, idx)]
           ELSE [nodes |-> PushChild(added, popped[Len(popped)], idx),
                 entries |-> f.entries,
                 stack |-> Append(popped, idx)]

\* parseContent(lines): the loop over all lines
RECURSIVE parseContent(_)
parseContent(lines) ==
  IF lines = <<>> THEN NoForest
  ELSE ParseLine(parseContent(SubSeq(lines, 1, Len(lines) - 1)), lines[Len(lines)])

(***************************************************************************)
(* State.                                                                   *)
(***************************************************************************)
VARIABLES
  \* a run of LogParser.parseContent
  input,       \* the lines processed so far by the loop of parseContent
  forest,      \* nodes, entries (roots) and stack after these lines
  returned,    \* TRUE once parseContent has returned entries
  \* LogParserServer
  logFilePath, \* this.logFilePath: null or the configured path
  file,        \* the file at that path: whether it can be read, and its lines
  cachedHtml,  \* this.cachedHtml: the render cache, null when empty
  response,    \* what the GET / request in progress was answered with: the res.send calls, in order
  sseClients,  \* this.sseClients, in insertion order
  timers,      \* connections whose keepAlive interval is running
  open,        \* connections of GET /events whose request has not closed
  outbox,      \* per connection: the event frames written and not yet consumed
  serverAlive, \* FALSE once an uncaught exception has ended the process
  \* one page of the generated document in a browser
  page,        \* "loading" until the load event, "ready", "unloading" after location.reload()
  doc,         \* the entries the document was generated from
  client,      \* the script's variables, the DOM, window.originalStructuredHTML, localStorage
  reloadFrom,  \* history: the view at the last invalidation event, until the user acts again
  beforePlain, \* history, during a mode round trip: the collapsed flags at the switch to plain, the list shown in plain
  lastOp,      \* the handler that ran last, with its arguments
  \* HtmlGenerator, applied to one text
  parts,       \* parseAnsiColors: the parts of the split text processed so far
  ansi,        \* parseAnsiColors: result, currentColor, inSpan, and whether it has returned
  attr,        \* a rendered data-original-text attribute: the text, its markup, the decoded value
  \* one browser tab on the served document, with the file it is generated from
  stream       \* file and document versions, the tab's EventSources and retry timeouts

treeVars == <<input, forest, returned>>
docVars == <<logFilePath, file, response, cachedHtml>>
renderVars == <<parts, ansi, attr, stream>>
sseVars == <<sseClients, timers, open, outbox>>
clientVars == <<page, doc, client, reloadFrom, beforePlain>>

vars == <<input, forest, returned, logFilePath, file, response,
          sseClients, timers, open, outbox, serverAlive,
          page, doc, client, reloadFrom, beforePlain, lastOp,
          cachedHtml, parts, ansi, attr, stream>>

Conns == 1..MaxConns
NoOp == [op |-> "none"]
NoResponse == <<>>
LogPath == "app.log"

TreeIdle ==
  /\ input = <<>>
  /\ forest = NoForest
  /\ returned = FALSE

DocIdle ==
  /\ logFilePath = LogPath
  /\ file = [readable |-> TRUE, lines |-> <<>>]
  /\ response = NoResponse
  /\ cachedHtml = null

SseIdle ==
  /\ sseClients = <<>>
  /\ timers = {}
  /\ open = {}
  /\ outbox = [c \in Conns |-> <<>>]

NoReload == [data |-> "none", viewMode |-> "none", expanded |-> FALSE, scroll |-> 0]
NoFlags == [set |-> FALSE, hidden |-> <<>>, list |-> <<>>]
NoClient == [currentMode |-> "none"]

NoAnsi == [result |-> <<>>, currentColor |-> "null", inSpan |-> FALSE, returned |-> FALSE]
NoAttr == [rawText |-> <<>>, markup |-> <<>>, value |-> <<>>, rendered |-> FALSE]

\* a tab that has just requested the document, of a file not yet changed
NoStream ==
  [fileVersion |-> 0, docVersion |-> null, navigating |-> TRUE,
   scriptPending |-> FALSE, sources |-> {}, retryTimers |-> 0, errors |-> 0]

RenderIdle ==
  /\ parts = <<>>
  /\ ansi = NoAnsi
  /\ attr = NoAttr
  /\ stream = NoStream

ClientIdle ==
  /\ page = "none"
  /\ doc = [nodes |-> <<>>, entries |-> <<>>]
  /\ client = NoClient
  /\ reloadFrom = NoReload
  /\ beforePlain = NoFlags

(***************************************************************************)
(* A run of parseContent.                                                   *)
(***************************************************************************)
TreeInit ==
  /\ TreeIdle /\ RenderIdle /\ DocIdle /\ SseIdle /\ ClientIdle
  /\ serverAlive = TRUE
  /\ lastOp = NoOp

\* the loop body, for the next line of the caller's list
ParseNextLine ==
  /\ ~returned
  /\ Len(input) < MaxLines
  /\ \E line \in Lines :
       /\ input' = Append(input, line)
       /\ forest' = ParseLine(forest, line)
  /\ UNCHANGED <<renderVars, returned, docVars, sseVars, clientVars, serverAlive, lastOp>>

\* return entries
ParseReturn ==
  /\ ~returned
  /\ returned' = TRUE
  /\ UNCHANGED <<renderVars, input, forest, docVars, sseVars, clientVars, serverAlive, lastOp>>

TreeNext == ParseNextLine \/ ParseReturn

SpecTree == TreeInit /\ [][TreeNext]_vars

(***************************************************************************)
(* Properties of the forest.                                                *)
(***************************************************************************)
Nodes == 1..Len(forest.nodes)

\* the parent of node i in forest f, 0 for a forest root
ParentIn(f, i) ==
  LET ps == {p \in 1..Len(f.nodes) : \E k \in 1..Len(f.nodes[p].children) : f.nodes[p].children[k] = i}
  IN  IF ps = {} THEN 0 ELSE CHOOSE p \in ps : TRUE

\* the nearest preceding entry with a strictly smaller depth, 0 if none
NearestShallower(f, i) ==
  LET c == {j \in 1..(i - 1) : f.nodes[j].level < f.nodes[i].level}
  IN  IF c = {} THEN 0 ELSE CHOOSE j \in c : \A k \in c : k <= j

\* number of places (children lists and the roots list) that hold node i
Occurrences(f, i) ==
  Cardinality({p \in 1..Len(f.nodes) : \E k \in 1..Len(f.nodes[p].children) : f.nodes[p].children[k] = i})
  + Cardinality({k \in 1..Len(f.entries) : f.entries[k] = i})

IsIncreasing(s) == \A k \in 1..(Len(s) - 1) : s[k] < s[k + 1]

\* C1: every entry is the last-appended child of the nearest preceding entry
\* of strictly smaller depth, or a forest root when there is none; so the
\* depth of a child exceeds the depth of its parent on every edge.
Thm_C1_NearestAncestor ==
  \A i \in Nodes :
    /\ Occurrences(forest, i) = 1
    /\ ParentIn(forest, i) = NearestShallower(forest, i)
    /\ ParentIn(forest, i) = 0 => \E k \in 1..Len(forest.entries) : forest.entries[k] = i
    /\ ParentIn(forest, i) # 0 =>
         forest.nodes[i].level > forest.nodes[ParentIn(forest, i)].level
    /\ IsIncreasing(forest.nodes[i].children)
    /\ IsIncreasing(forest.entries)

\* a run in which an entry was attached below a parent, after a deeper
\* entry had to be popped from the stack
Wit_C1_NearestAncestor ==
  /\ returned
  /\ \E i \in Nodes :
       /\ ParentIn(forest, i) # 0
       /\ ParentIn(forest, i) < i - 1
       /\ forest.nodes[i - 1].level > forest.nodes[i].level

\* the input is four lines of depths 0, 1, 1, 2: A, B, C, D
ScenarioABCD ==
  /\ Len(input) = 4
  /\ [k \in 1..4 |-> getIndentLevel(input[k])] = <<0, 1, 1, 2>>

\* C31: for the four lines A (depth 0), B (depth 1), C (depth 1), D (depth 2)
\* parseContent returns the single root A with the children [B, C] in this
\* order, B without children and C with the one child D.
Thm_C31_ScenarioABCD ==
  (returned /\ ScenarioABCD) =>
    /\ Len(forest.nodes) = 4
    /\ \A k \in 1..4 : forest.nodes[k].originalText = Trim(input[k])
    /\ forest.entries = <<1>>
    /\ forest.nodes[1].children = <<2, 3>>
    /\ forest.nodes[2].children = <<>>
    /\ forest.nodes[3].children = <<4>>
    /\ forest.nodes[4].children = <<>>

\* the scenario was parsed and returned, with tab-indented lines
Wit_C31_ScenarioABCD ==
  /\ returned
  /\ ScenarioABCD
  /\ input = <<<<"a">>, <<Tab, "a", "B">>, <<Tab, "a">>, <<Tab, Tab, "a">>>>
  /\ forest.nodes[3].children = <<4>>

\* depth-first pre-order traversal of a list of arena indices
RECURSIVE PreOrder(_, _)
PreOrder(f, list) ==
  IF list = <<>> THEN <<>>
  ELSE <<Head(list)>> \o PreOrder(f, f.nodes[Head(list)].children) \o PreOrder(f, Tail(list))

\* C2: the pre-order traversal of the returned forest visits the entries in
\* the order of the input lines.
Thm_C2_PreOrderIsFileOrder ==
  returned =>
    /\ Len(forest.nodes) = Len(input)
    /\ PreOrder(forest, forest.entries) = [k \in 1..Len(input) |-> k]
    /\ \A k \in 1..Len(input) :
         forest.nodes[k].originalText = Trim(input[k])

\* a returned forest with several roots, one of them with two children
Wit_C2_PreOrderIsFileOrder ==
  /\ returned
  /\ Len(forest.entries) >= 2
  /\ \E i \in Nodes : Len(forest.nodes[i].children) >= 2

\* C16 as stated: all forest roots have the same depth, the minimum depth
\* over the top-level entries.  (The original claim; a file that starts with
\* an indented line has roots of different depths.)
Cex_C16_RootsShareDepth ==
  \A a \in 1..Len(forest.entries) : \A b \in 1..Len(forest.entries) :
    forest.nodes[forest.entries[a]].level = forest.nodes[forest.entries[b]].level

\* C16, amended: the depths of the forest roots never increase in file
\* order, and the last root has the minimum depth of all entries.
Thm_C16_RootDepthsNonIncreasing ==
  /\ \A k \in 1..(Len(forest.entries) - 1) :
       forest.nodes[forest.entries[k]].level >= forest.nodes[forest.entries[k + 1]].level
  /\ forest.entries # <<>> =>
       \A i \in Nodes :
         forest.nodes[i].level >= forest.nodes[forest.entries[Len(forest.entries)]].level

\* a returned forest whose first root is deeper than its last root, which
\* has a child of the first root's depth or deeper
Wit_C16_RootDepthsNonIncreasing ==
  /\ returned
  /\ Len(forest.entries) >= 2
  /\ forest.nodes[forest.entries[1]].level
       > forest.nodes[forest.entries[Len(forest.entries)]].level
  /\ forest.nodes[forest.entries[Len(forest.entries)]].children # <<>>

\* the depth of entry i of the forest
Depth(i) == forest.nodes[i].level

\* C37: after each line the stack holds entries of strictly increasing depth
\* from bottom to top, its bottom is the last forest root, its top is the
\* entry just added, and each stack element is the parent of the element
\* directly above it.
Thm_C37_StackIsPathToLast ==
  input # <<>> =>
    /\ forest.stack # <<>>
    /\ \A k \in 1..(Len(forest.stack) - 1) :
         /\ Depth(forest.stack[k]) < Depth(forest.stack[k + 1])
         /\ ParentIn(forest, forest.stack[k + 1]) = forest.stack[k]
    /\ forest.stack[1] = forest.entries[Len(forest.entries)]
    /\ forest.stack[Len(forest.stack)] = Len(forest.nodes)
    /\ Len(forest.nodes) = Len(input)

\* a line was just attached two levels below the last root, after deeper
\* entries were popped from the stack
Wit_C37_StackIsPathToLast ==
  /\ Len(input) = 4
  /\ Len(forest.stack) = 2
  /\ forest.stack = <<1, 4>>
  /\ Depth(3) > Depth(4)

\* C38: a root never has a greater depth than any root that precedes it, so
\* the last root has the minimum depth of all entries; a root that follows
\* an entry is at most as deep as that entry.
Thm_C38_RootsNeverDeeper ==
  LET roots == forest.entries
  IN  /\ \A a \in 1..Len(roots) : \A b \in a..Len(roots) :
           Depth(roots[b]) <= Depth(roots[a])
      /\ \A b \in 1..Len(roots) : \A i \in 1..roots[b] :
           Depth(roots[b]) <= Depth(i)
      /\ roots # <<>> =>
           \A i \in Nodes : Depth(roots[Len(roots)]) <= Depth(i)

\* a returned forest with three roots, the second shallower than the first
\* and as deep as the third
Wit_C38_RootsNeverDeeper ==
  /\ returned
  /\ Len(forest.entries) = 3
  /\ Depth(forest.entries[1]) > Depth(forest.entries[2])
  /\ Depth(forest.entries[2]) = Depth(forest.entries[3])

(***************************************************************************)
(* A run of parseContent over records with timestamps, levels and loggers. *)
(***************************************************************************)
\* the parts a record is put together from
IndentParts == {<<>>, <<Tab>>}
LevelParts == {<<>>, <<Dash, Space, "info", Space, Dash, Space>>,
               <<Dash, Space, "a", Space, Dash, Space>>}
LoggerParts == {<<>>, <<"a", Space, Dash, Space>>}
Message == <<"B">>
\* the records of a file: the timestamp in front, at the end, or missing
RecordLines ==
  {ind \o <<"t1", Space>> \o lev \o log \o Message :
     ind \in IndentParts, lev \in LevelParts, log \in LoggerParts}
  \cup {ind \o lev \o log \o Message \o <<Space, "t2">> :
     ind \in IndentParts, lev \in LevelParts, log \in LoggerParts}
  \cup {ind \o lev \o log \o Message :
     ind \in IndentParts, lev \in LevelParts, log \in LoggerParts}

\* the loop body, for the next record of the caller's list
ParseNextRecord ==
  /\ ~returned
  /\ Len(input) < MaxRecords
  /\ \E line \in RecordLines :
       /\ input' = Append(input, line)
       /\ forest' = ParseLine(forest, line)
  /\ UNCHANGED <<renderVars, returned, docVars, sseVars, clientVars, serverAlive, lastOp>>

FieldsNext == ParseNextRecord \/ ParseReturn

SpecFields == TreeInit /\ [][FieldsNext]_vars

\* C14: parseContent never drops a line and never raises: the forest holds
\* one entry for every non-blank input line, whatever the line's content.
Thm_C14_NoLineDropped ==
  /\ Len(PreOrder(forest, forest.entries)) = Len(input)
  /\ \A k \in 1..Len(input) :
       \E p \in 1..Len(input) :
         /\ PreOrder(forest, forest.entries)[p] = k
         /\ forest.nodes[k].originalText = Trim(input[k])
  /\ returned \/ ENABLED ParseReturn

\* a returned forest that holds a record without timestamp, level or logger
\* below a complete record
Wit_C14_NoLineDropped ==
  /\ returned
  /\ Len(input) = 2
  /\ forest.nodes[1].logLevel # "null"
  /\ forest.nodes[1].children = <<2>>
  /\ forest.nodes[2].timestamp = null
  /\ forest.nodes[2].logLevel = "null"

\* a text that begins with the '- LEVEL -' convention
BeginsWithLevel(text) ==
  \E w \in {"info", "warn"} \cup LevelNames :
    Len(text) >= 6 /\ SubSeq(text, 1, 6) = <<Dash, Space, w, Space, Dash, Space>>

HasTimestamp(text) == \E i \in 1..Len(text) : text[i] \in TimestampTokens

\* C15: an entry made from a line with no timestamp that does not begin with
\* the '- LEVEL -' convention has no timestamp, no level and no logger name,
\* and its display text is the whole trimmed line.  (The original claim; the
\* code takes a leading 'name - ' of such a line as its logger name.)
Cex_C15_UnrecognizedLineKeptWhole ==
  \A i \in Nodes :
    (~HasTimestamp(forest.nodes[i].originalText) /\ ~BeginsWithLevel(forest.nodes[i].originalText)) =>
      /\ forest.nodes[i].timestamp = null
      /\ forest.nodes[i].logLevel = "null"
      /\ forest.nodes[i].loggerName = <<>>
      /\ forest.nodes[i].text = forest.nodes[i].originalText

\* C17: the id of an entry is a function of its text alone: entries with the
\* same text have the same id at any depth and position, and the id does not
\* depend on the extracted timestamp.
Thm_C17_IdFromTextAlone ==
  /\ \A i \in Nodes : \A j \in Nodes :
       forest.nodes[i].originalText = forest.nodes[j].originalText
         => forest.nodes[i].id = forest.nodes[j].id
  /\ \A i \in Nodes : \A t \in {null, 1, 2} :
       forest.nodes[i].id = generateStableId(forest.nodes[i].originalText, t)

\* a returned forest with the same dated text as a root and as its child
Wit_C17_IdFromTextAlone ==
  /\ returned
  /\ Len(input) = 2
  /\ forest.nodes[1].children = <<2>>
  /\ forest.nodes[1].timestamp # null
  /\ forest.nodes[1].originalText = forest.nodes[2].originalText
  /\ forest.nodes[1].id = forest.nodes[2].id

(***************************************************************************)
(* The document endpoint: GET / of LogParserServer.                         *)
(***************************************************************************)
NoPath == ""
FileBodies == {<<"a">>, <<"t1", "a">>, <<"t2", "a">>}
\* the lines a file may hold, one of them blank
FileLines == {ind \o body : ind \in {<<>>, <<Tab>>}, body \in FileBodies} \cup {<<Tab>>}
Files == [readable : BOOLEAN, lines : SeqsUpTo(FileLines, MaxFileLines)]
Nows == 1..MaxNow

\* new Date(Date.now() - this.timeWindowMinutes * 60 * 1000), in time units
cutoffTimeAt(now) == now - timeWindowMinutes

RECURSIVE SizeOf(_)
SizeOf(lines) ==
  IF lines = <<>> THEN 0 ELSE Len(Head(lines)) + 1 + SizeOf(Tail(lines))

\* the for-await loop of readRecentLinesWithStats over the lines of the file
RECURSIVE ReadLoopStrict(_, _, _)
ReadLoopStrict(lines, cutoffTime, acc) ==
  IF lines = <<>> THEN acc
  ELSE LET line == Head(lines)
           timestamp == extractTimestamp(line)
       IN  IF Trim(line) = <<>> THEN ReadLoopStrict(Tail(lines), cutoffTime, acc)
           ELSE ReadLoopStrict(Tail(lines), cutoffTime,
                  [recentLines |-> IF timestamp # null /\ timestamp > cutoffTime
                                   THEN Append(acc.recentLines, line)
                                   ELSE acc.recentLines,
                   totalRecords |-> acc.totalRecords + 1])

RECURSIVE ReadLoopCountsDated(_, _, _)
ReadLoopCountsDated(lines, cutoffTime, acc) ==
  IF lines = <<>> THEN acc
  ELSE LET line == Head(lines)
           timestamp == extractTimestamp(line)
       IN  IF Trim(line) = <<>> THEN ReadLoopCountsDated(Tail(lines), cutoffTime, acc)
           ELSE ReadLoopCountsDated(Tail(lines), cutoffTime,
                  [recentLines |-> IF timestamp # null /\ timestamp >= cutoffTime
                                   THEN Append(acc.recentLines, line)
                                   ELSE acc.recentLines,
                   totalRecords |-> IF timestamp # null
                                    THEN acc.totalRecords + 1
                                    ELSE acc.totalRecords])

RECURSIVE ReadLoop(_, _, _)
ReadLoop(lines, cutoffTime, acc) ==
  IF lines = <<>> THEN acc
  ELSE LET line == Head(lines)
           timestamp == extractTimestamp(line)
       IN  IF Trim(line) = <<>> THEN ReadLoop(Tail(lines), cutoffTime, acc)
           ELSE ReadLoop(Tail(lines), cutoffTime,
                  [recentLines |-> IF timestamp # null /\ timestamp >= cutoffTime
                                   THEN Append(acc.recentLines, line)
                                   ELSE acc.recentLines,
                   totalRecords |-> acc.totalRecords + 1])

\* readRecentLinesWithStats: fs.promises.stat rejects when the file cannot
\* be read, and the rejection is thrown to the caller
readRecentLinesWithStats(f, cutoffTime) ==
  IF ~f.readable THEN [threw |-> TRUE]
  ELSE LET r == ReadLoop(f.lines, cutoffTime, [recentLines |-> <<>>, totalRecords |-> 0])
       IN  [threw |-> FALSE,
            recentLines |-> r.recentLines,
            fileSizeBytes |-> SizeOf(f.lines),
            totalRecords |-> r.totalRecords]

\* what parseContent returns: the roots, with the entries they own
EntriesOf(f) == [nodes |-> f.nodes, entries |-> f.entries]

\* parseLogFileWithStats: the catch block turns a read error into an empty result
parseLogFileWithStats(f, now) ==
  LET result == readRecentLinesWithStats(f, cutoffTimeAt(now))
  IN  IF result.threw
      THEN [threw |-> FALSE,
            entries |-> EntriesOf(NoForest),
            stats |-> [fileSizeBytes |-> 0, totalRecords |-> 0, recordsPassedCutoff |-> 0]]
      ELSE [threw |-> FALSE,
            entries |-> EntriesOf(parseContent(result.recentLines)),
            stats |-> [fileSizeBytes |-> result.fileSizeBytes,
                       totalRecords |-> result.totalRecords,
                       recordsPassedCutoff |-> Len(result.recentLines)]]

\* HtmlGenerator.generateHtml: the document, which holds the rendered
\* entries and the statistics; it throws for no forest parseContent returns
generateHtml(entries, path, fileStats) ==
  [threw |-> FALSE, entries |-> entries, stats |-> fileStats]

\* the informational page sent when the server was started without a file
InfoPage == [status |-> 200, body |-> "No log file specified"]

\* the two try blocks of the GET / handler: what they send
ParseAndRender(path, f, now) ==
  LET result == parseLogFileWithStats(f, now)
  IN  IF result.threw
      THEN <<[status |-> 500, body |-> "Error parsing log file"]>>
      ELSE LET html == generateHtml(result.entries, path, result.stats)
           IN  IF html.threw
               THEN <<[status |-> 500, body |-> "Error generating HTML"]>>
               ELSE <<[status |-> 200, body |-> "document",
                       entries |-> html.entries, stats |-> html.stats]>>

\* the GET / handler: the res.send calls it makes for the configured path
\* and file, in order
HandleGetRootNoReturn(path, f, now) ==
  IF path = NoPath
  THEN <<InfoPage>> \o ParseAndRender(path, [readable |-> FALSE, lines |-> <<>>], now)
  ELSE ParseAndRender(path, f, now)

HandleGetRoot(path, f, now) ==
  IF path = NoPath
  THEN <<InfoPage>>
  ELSE ParseAndRender(path, f, now)

DocInit ==
  /\ TreeIdle /\ RenderIdle /\ SseIdle /\ ClientIdle
  /\ logFilePath \in {NoPath, LogPath}
  /\ file \in Files
  /\ response = NoResponse
  /\ cachedHtml = null
  /\ serverAlive = TRUE
  /\ lastOp = NoOp

\* a viewer requests the document at time now
GetRoot(now) ==
  /\ serverAlive
  /\ response' = HandleGetRoot(logFilePath, file, now)
  /\ lastOp' = [op |-> "GetRoot", now |-> now]
  /\ UNCHANGED <<renderVars, treeVars, logFilePath, file, cachedHtml, sseVars, clientVars, serverAlive>>

\* another process writes the file; the response to an earlier request
\* has been delivered by then
WriteFile(lines) ==
  /\ file' = [readable |-> TRUE, lines |-> lines]
  /\ file' # file
  /\ response' = NoResponse
  /\ lastOp' = [op |-> "WriteFile"]
  /\ UNCHANGED <<renderVars, treeVars, logFilePath, cachedHtml, sseVars, clientVars, serverAlive>>

\* another process removes the file or makes it unreadable
RemoveFile ==
  /\ file.readable
  /\ file' = [file EXCEPT !.readable = FALSE]
  /\ response' = NoResponse
  /\ lastOp' = [op |-> "RemoveFile"]
  /\ UNCHANGED <<renderVars, treeVars, logFilePath, cachedHtml, sseVars, clientVars, serverAlive>>

DocNext ==
  \/ \E now \in Nows : GetRoot(now)
  \/ \E lines \in SeqsUpTo(FileLines, MaxFileLines) : WriteFile(lines)
  \/ RemoveFile

SpecDoc == DocInit /\ [][DocNext]_vars

\* C10: a request made while the configured file cannot be read is answered
\* with an error response, not with a document, and the server stays up.
\* (The original claim; the code answers with an empty document.)
Cex_C10_ReadErrorSurfaced ==
  (lastOp.op = "GetRoot" /\ logFilePath # NoPath /\ ~file.readable) =>
    /\ response # <<>>
    /\ \A k \in 1..Len(response) :
         /\ response[k].status >= 400
         /\ response[k].body # "document"
    /\ serverAlive

\* the request that was just answered, for a configured and readable file
ServedFile ==
  /\ lastOp.op = "GetRoot"
  /\ logFilePath # NoPath
  /\ file.readable

\* positions of the non-blank lines of the file
NonBlankAt(lines) == {k \in 1..Len(lines) : \E i \in 1..Len(lines[k]) : lines[k][i] \notin Whitespace}

\* positions of the lines that carry a timestamp at or after the cutoff
InWindowAt(lines, cutoff) ==
  {k \in NonBlankAt(lines) :
     \E i \in 1..Len(lines[k]) :
       /\ lines[k][i] \in TimestampTokens
       /\ \A j \in 1..(i - 1) : lines[k][j] \notin TimestampTokens
       /\ DateOf(lines[k][i]) >= cutoff}

\* a finite set of numbers as an ascending sequence
RECURSIVE Ascending(_)
Ascending(S) ==
  IF S = {} THEN <<>>
  ELSE LET m == CHOOSE x \in S : \A y \in S : x <= y
       IN  <<m>> \o Ascending(S \ {m})

Thm_C12_WindowCutoffInclusive ==
  ServedFile =>
    LET kept == Ascending(InWindowAt(file.lines, lastOp.now - timeWindowMinutes))
        nodes == response[1].entries.nodes
    IN  /\ Len(nodes) = Len(kept)
        /\ \A k \in 1..Len(kept) :
             /\ nodes[k].originalText = Trim(file.lines[kept[k]])
             /\ nodes[k].level = getIndentLevel(file.lines[kept[k]])

\* a served file with a line stamped exactly at the cutoff, which is in the
\* document, and an older line, which is not
Wit_C12_WindowCutoffInclusive ==
  /\ ServedFile
  /\ Len(file.lines) = 2
  /\ extractTimestamp(file.lines[1]) # null
  /\ extractTimestamp(file.lines[1]) < lastOp.now - timeWindowMinutes
  /\ extractTimestamp(file.lines[2]) = lastOp.now - timeWindowMinutes
  /\ Len(response[1].entries.nodes) = 1
  /\ response[1].entries.nodes[1].originalText = Trim(file.lines[2])

\* C13: totalRecords counts every non-blank line of the file, dated or not;
\* a line with no timestamp is never in the window; so the number of records
\* in the window never exceeds totalRecords.
Thm_C13_TotalsCountUndated ==
  ServedFile =>
    LET stats == response[1].stats
        nodes == response[1].entries.nodes
    IN  /\ stats.totalRecords = Cardinality(NonBlankAt(file.lines))
        /\ \A k \in 1..Len(nodes) : nodes[k].timestamp # null
        /\ stats.recordsPassedCutoff <= stats.totalRecords
        /\ stats.recordsPassedCutoff = Len(nodes)

\* a served file with an undated line and a blank line: the undated line is
\* counted, and the document holds the dated line only
Wit_C13_TotalsCountUndated ==
  /\ ServedFile
  /\ \E k \in 1..Len(file.lines) :
       /\ k \in NonBlankAt(file.lines)
       /\ extractTimestamp(file.lines[k]) = null
  /\ response[1].stats.totalRecords = 2
  /\ response[1].stats.recordsPassedCutoff = 1

(***************************************************************************)
(* Requests for the document of a readable file of up to MaxWindowLines     *)
(* lines: the nesting of the served lines against the nesting of the file.  *)
(***************************************************************************)
WindowInit ==
  /\ TreeIdle /\ RenderIdle /\ SseIdle /\ ClientIdle
  /\ logFilePath = LogPath
  /\ file \in [readable : {TRUE},
                lines : SeqsUpTo({<<"t1", "a">>, <<"t2", "a">>, <<"a">>, <<Tab, "t2", "a">>},
                                 MaxWindowLines)]
  /\ response = NoResponse
  /\ cachedHtml = null
  /\ serverAlive = TRUE
  /\ lastOp = NoOp

SpecWindow == WindowInit /\ [][\E now \in Nows : GetRoot(now)]_vars

\* the ancestors of node i in forest f
RECURSIVE AncestorsIn(_, _)
AncestorsIn(f, i) ==
  IF ParentIn(f, i) = 0 THEN {}
  ELSE {ParentIn(f, i)} \cup AncestorsIn(f, ParentIn(f, i))

\* the nesting of the complete file: the forest built from all non-blank lines
FullForest == parseContent([k \in 1..Cardinality(NonBlankAt(file.lines)) |->
                              file.lines[Ascending(NonBlankAt(file.lines))[k]]])

\* the entry of FullForest made from line k of the file
FullIndex(k) == Cardinality({j \in NonBlankAt(file.lines) : j <= k})

\* C32: in the forest of a served document the parent of every entry is an
\* ancestor of that entry's line in the nesting of the complete file.  (The
\* original claim; an entry whose parent line was dropped is attached to the
\* nearest served line of smaller depth, whatever its place in the file.)
Cex_C32_ParentIsFileAncestor ==
  ServedFile =>
    LET kept == Ascending(InWindowAt(file.lines, lastOp.now - timeWindowMinutes))
        served == response[1].entries
    IN  \A i \in 1..Len(served.nodes) :
          ParentIn(served, i) # 0 =>
            FullIndex(kept[ParentIn(served, i)]) \in AncestorsIn(FullForest, FullIndex(kept[i]))

\* C36: the forest of a served document holds exactly the in-window lines:
\* its number of entries, counted over the whole forest, is
\* stats.recordsPassedCutoff, and every entry has a timestamp that is present
\* and at or after the cutoff of that request.
Thm_C36_ForestIsWindow ==
  ServedFile =>
    LET cutoff == cutoffTimeAt(lastOp.now)
        served == response[1].entries
        inWindow == InWindowAt(file.lines, cutoff)
    IN  /\ Len(PreOrder(served, served.entries)) = response[1].stats.recordsPassedCutoff
        /\ Len(served.nodes) = Cardinality(inWindow)
        /\ \A i \in 1..Len(served.nodes) :
             /\ served.nodes[i].timestamp # null
             /\ served.nodes[i].timestamp >= cutoff
             /\ Occurrences(served, i) = 1
        /\ \A k \in NonBlankAt(file.lines) \ inWindow :
             \/ extractTimestamp(file.lines[k]) = null
             \/ extractTimestamp(file.lines[k]) < cutoff

\* a served file of an old line, a line stamped at the cutoff and a later
\* line nested below it: the document holds the last two
Wit_C36_ForestIsWindow ==
  /\ ServedFile
  /\ Len(file.lines) = 3
  /\ lastOp.now = 3
  /\ file.lines = <<<<"t1", "a">>, <<"t2", "a">>, <<Tab, "t2", "a">>>>
  /\ response[1].stats.recordsPassedCutoff = 2
  /\ response[1].entries.entries = <<1>>
  /\ response[1].entries.nodes[1].children = <<2>>

(***************************************************************************)
(* The live-update channel: GET /events, the keep-alive interval, the file  *)
(* watcher and notifyClients.                                               *)
(***************************************************************************)
\* the data of the event frames the server writes
FileChangedData == "{type:fileChanged}"
PingData == "{type:ping}"

Range(seq) == {seq[k] : k \in 1..Len(seq)}

\* Set.prototype.delete on the insertion-ordered set of clients
RECURSIVE DeleteClient(_, _)
DeleteAllClients(clients, c) == <<>>

DeleteClient(clients, c) ==
  IF clients = <<>> THEN <<>>
  ELSE IF Head(clients) = c THEN Tail(clients)
  ELSE <<Head(clients)>> \o DeleteClient(Tail(clients), c)

\* notifyClients: the forEach over this.sseClients; res.write throws for the
\* connections in failing, the catch block deletes such a client
RECURSIVE NotifyLoopUntilError(_, _, _)
NotifyLoopUntilError(todo, failing, st) ==
  IF todo = <<>> THEN st
  ELSE LET c == Head(todo)
       IN  IF c \in failing
           THEN [st EXCEPT !.clients = DeleteClient(@, c)]
           ELSE NotifyLoopUntilError(Tail(todo), failing,
                  [st EXCEPT !.outbox[c] = Append(@, FileChangedData)])

RECURSIVE NotifyLoop(_, _, _)
NotifyLoop(todo, failing, st) ==
  IF todo = <<>> THEN st
  ELSE LET c == Head(todo)
       IN  IF c \in failing
           THEN NotifyLoop(Tail(todo), failing,
                  [st EXCEPT !.clients = DeleteClient(@, c)])
           ELSE NotifyLoop(Tail(todo), failing,
                  [st EXCEPT !.outbox[c] = Append(@, FileChangedData)])

notifyClientsResetsRegistry(clients, boxes, failing) ==
  [NotifyLoop(clients, failing, [clients |-> clients, outbox |-> boxes])
     EXCEPT !.clients = <<>>]

notifyClients(clients, boxes, failing) ==
  NotifyLoop(clients, failing, [clients |-> clients, outbox |-> boxes])

SseInit ==
  /\ TreeIdle /\ RenderIdle /\ DocIdle /\ SseIdle /\ ClientIdle
  /\ serverAlive = TRUE
  /\ lastOp = NoOp

\* GET /events: start the keep-alive interval and register the client
Connect(c) ==
  /\ serverAlive
  /\ c \notin open
  /\ open' = open \cup {c}
  /\ timers' = timers \cup {c}
  /\ sseClients' = Append(sseClients, c)
  /\ outbox' = [outbox EXCEPT ![c] = <<>>]
  /\ lastOp' = [op |-> "Connect", conn |-> c]
  /\ UNCHANGED <<renderVars, treeVars, docVars, clientVars, serverAlive>>

\* req.on('close'): clearInterval(keepAlive), this.sseClients.delete(client)
Close(c) ==
  /\ serverAlive
  /\ c \in open
  /\ open' = open \ {c}
  /\ timers' = timers \ {c}
  /\ sseClients' = DeleteClient(sseClients, c)
  /\ outbox' = [outbox EXCEPT ![c] = <<>>]
  /\ lastOp' = [op |-> "Close", conn |-> c]
  /\ UNCHANGED <<renderVars, treeVars, docVars, clientVars, serverAlive>>

\* the keep-alive interval of connection c fires; when res.write throws,
\* nothing catches the exception and the process ends
KeepAlive(c, throws) ==
  /\ serverAlive
  /\ c \in timers
  /\ Len(outbox[c]) < MaxOutbox
  /\ IF throws
     THEN /\ serverAlive' = FALSE
          /\ UNCHANGED outbox
     ELSE /\ outbox' = [outbox EXCEPT ![c] = Append(@, PingData)]
          /\ UNCHANGED serverAlive
  /\ lastOp' = [op |-> "KeepAlive", conn |-> c, threw |-> throws]
  /\ UNCHANGED <<renderVars, treeVars, docVars, clientVars, sseClients, timers, open>>

\* the watcher's 'change' callback: this.cachedHtml = null; notifyClients()
OnFileChange(failing) ==
  /\ serverAlive
  /\ logFilePath # NoPath
  /\ failing \subseteq Range(sseClients)
  /\ \A c \in Range(sseClients) : Len(outbox[c]) < MaxOutbox
  /\ LET st == notifyClients(sseClients, outbox, failing)
     IN  /\ sseClients' = st.clients
         /\ outbox' = st.outbox
  /\ cachedHtml' = null
  /\ lastOp' = [op |-> "OnFileChange", failing |-> failing]
  /\ UNCHANGED <<renderVars, treeVars, logFilePath, file, response, clientVars, timers, open, serverAlive>>

\* the viewer's EventSource takes the oldest buffered frame of connection c
Consume(c) ==
  /\ outbox[c] # <<>>
  /\ outbox' = [outbox EXCEPT ![c] = Tail(@)]
  /\ lastOp' = [op |-> "Consume", conn |-> c]
  /\ UNCHANGED <<renderVars, treeVars, docVars, clientVars, sseClients, timers, open, serverAlive>>

SseNext ==
  \/ \E c \in Conns : Connect(c)
  \/ \E c \in Conns : Close(c)
  \/ \E c \in Conns, throws \in BOOLEAN : KeepAlive(c, throws)
  \/ \E failing \in SUBSET Conns : OnFileChange(failing)
  \/ \E c \in Conns : Consume(c)

SpecSse == SseInit /\ [][SseNext]_vars

\* C30: the file-change handler only empties the render cache and writes
\* events to the registered viewers: it produces no document and parses
\* nothing, it removes exactly the viewers whose write failed (none when no
\* write fails), and it leaves the watched path, the file, the keep-alive
\* timers, the open connections and the outboxes of unregistered
\* connections unchanged.
Thm_C30_FileChangeFrame ==
  [][\A failing \in SUBSET Conns : OnFileChange(failing) =>
       /\ cachedHtml' = null
       /\ UNCHANGED <<treeVars, renderVars, clientVars>>
       /\ UNCHANGED <<logFilePath, file, response, timers, open, serverAlive>>
       /\ sseClients' = SelectSeq(sseClients, LAMBDA c : c \notin failing)
       /\ failing = {} => sseClients' = sseClients
       /\ \A c \in Conns \ Range(sseClients) : outbox'[c] = outbox[c]
       /\ \A c \in Conns : outbox'[c] \in {outbox[c], Append(outbox[c], FileChangedData)}]_vars

\* a change was just handled with two viewers registered and no failing
\* write: both got the event and both are still registered
Wit_C30_FileChangeFrame ==
  /\ lastOp.op = "OnFileChange"
  /\ lastOp.failing = {}
  /\ Len(sseClients) = 2
  /\ \A c \in Range(sseClients) :
       outbox[c] # <<>> /\ outbox[c][Len(outbox[c])] = FileChangedData
  /\ cachedHtml = null

\* C6: a change of the watched file makes the server write exactly one
\* fileChanged frame to every viewer registered at that moment (the write
\* throws for the viewers in failing), and to no other connection.
Thm_C6_ChangeNotifiesAll ==
  [][lastOp'.op = "OnFileChange" =>
       \A c \in Conns :
         IF c \in Range(sseClients) /\ c \notin lastOp'.failing
         THEN outbox'[c] = Append(outbox[c], FileChangedData)
         ELSE outbox'[c] = outbox[c]]_vars

\* a change was notified to two registered viewers at once
Wit_C6_ChangeNotifiesAll ==
  /\ lastOp.op = "OnFileChange"
  /\ lastOp.failing = {}
  /\ Len(sseClients) >= 2
  /\ \A c \in Range(sseClients) :
       outbox[c] # <<>> /\ outbox[c][Len(outbox[c])] = FileChangedData

\* C8: a failed write to one viewer, of an invalidation or of a keep-alive,
\* removes that viewer's registration only, the invalidation still reaches
\* the remaining viewers, and the server process is never terminated.
\* (The original claim; a throwing keep-alive write ends the process.)
Cex_C8_SendFailureIsolated ==
  [][/\ lastOp'.op = "OnFileChange" =>
          /\ sseClients' = SelectSeq(sseClients, LAMBDA c : c \notin lastOp'.failing)
          /\ \A c \in Range(sseClients') : outbox'[c] = Append(outbox[c], FileChangedData)
     /\ (lastOp'.op = "KeepAlive" /\ lastOp'.threw) =>
          sseClients' = DeleteClient(sseClients, lastOp'.conn)
     /\ serverAlive']_vars

\* C34: in every reachable server state the running keep-alive timers are
\* those of the registered viewers: after a viewer is removed, by disconnect
\* or by a send failure, no keep-alive timer keeps writing to it.  (The
\* original claim; notifyClients deletes a failing client without clearing
\* its interval.)
Cex_C34_TimersAreRegistered ==
  timers = Range(sseClients)

\* C9: closing one viewer's connection removes exactly that viewer's
\* registration and stops its keep-alive timer; the other viewers stay
\* registered with their timers running, keep their buffered frames, and
\* are written to by every later invalidation.
Thm_C9_CloseIsolated ==
  [][/\ lastOp'.op = "Close" =>
          /\ sseClients' = SelectSeq(sseClients, LAMBDA d : d # lastOp'.conn)
          /\ timers' = timers \ {lastOp'.conn}
          /\ \A d \in Conns \ {lastOp'.conn} : outbox'[d] = outbox[d]
     /\ Range(sseClients) \subseteq timers
     /\ lastOp'.op = "OnFileChange" =>
          \A d \in Range(sseClients) \ lastOp'.failing :
            outbox'[d] = Append(outbox[d], FileChangedData)]_vars

\* a viewer closed while another viewer stays registered with its timer
Wit_C9_CloseIsolated ==
  /\ lastOp.op = "Close"
  /\ sseClients # <<>>
  /\ lastOp.conn \notin timers
  /\ Range(sseClients) \subseteq timers

(***************************************************************************)
(* The client script of the generated document (HtmlGenerator.generateHtml, *)
(* the version with collapse-all and ancestor-aware filtering).             *)
(***************************************************************************)
\* String.prototype.toLowerCase
LowerChar(ch) == IF ch = "A" THEN "a" ELSE IF ch = "B" THEN "b" ELSE ch
toLowerCase(text) == [k \in 1..Len(text) |-> LowerChar(text[k])]

\* String.prototype.includes
includes(text, part) ==
  \E k \in 0..(Len(text) - Len(part)) : SubSeq(text, k + 1, k + Len(part)) = part

\* text.replace(/ch/g, replacement)
RECURSIVE ReplaceAll(_, _, _)
ReplaceAll(text, ch, replacement) ==
  IF text = <<>> THEN <<>>
  ELSE (IF Head(text) = ch THEN replacement ELSE <<Head(text)>>)
       \o ReplaceAll(Tail(text), ch, replacement)


escapeForDataAttributeAmpLast(text) ==
  LET quot == ReplaceAll(text, "\"", <<"&", "q", "u", "o", "t", ";">>)
      apos == ReplaceAll(quot, "'", <<"&", "#", "3", "9", ";">>)
  IN  ReplaceAll(apos, "&", <<"&", "a", "m", "p", ";">>)

escapeForDataAttribute(text) ==
  LET amp == ReplaceAll(text, "&", <<"&", "a", "m", "p", ";">>)
      quot == ReplaceAll(amp, "\"", <<"&", "q", "u", "o", "t", ";">>)
  IN  ReplaceAll(quot, "'", <<"&", "#", "3", "9", ";">>)

StartsWith(text, prefix) ==
  /\ Len(text) >= Len(prefix)
  /\ SubSeq(text, 1, Len(prefix)) = prefix

\* the character references of an attribute value, decoded
RECURSIVE DecodeReferences(_)
DecodeReferences(text) ==
  IF text = <<>> THEN <<>>
  ELSE IF StartsWith(text, <<"&", "a", "m", "p", ";">>)
  THEN <<"&">> \o DecodeReferences(SubSeq(text, 6, Len(text)))
  ELSE IF StartsWith(text, <<"&", "q", "u", "o", "t", ";">>)
  THEN <<"\"">> \o DecodeReferences(SubSeq(text, 7, Len(text)))
  ELSE IF StartsWith(text, <<"&", "#", "3", "9", ";">>)
  THEN <<"'">> \o DecodeReferences(SubSeq(text, 6, Len(text)))
  ELSE <<Head(text)>> \o DecodeReferences(Tail(text))

\* the value of data-original-text="<markup>": the markup up to the first
\* double quote, with its character references decoded
RECURSIVE UpToQuote(_)
UpToQuote(markup) ==
  IF markup = <<>> \/ Head(markup) = "\"" THEN <<>>
  ELSE <<Head(markup)>> \o UpToQuote(Tail(markup))

getAttribute(markup) == DecodeReferences(UpToQuote(markup))

\* the entries of document d, in document order
EntryNodes(d) == 1..Len(d.nodes)
\* the entries rendered with a children container (generateEntry: hasChildren)
Containers(d) == {n \in EntryNodes(d) : d.nodes[n].childrenDiv # "none"}

\* the entries below n
RECURSIVE DescendantsOf(_, _)
DescendantsOf(d, n) ==
  LET kids == Range(d.nodes[n].children)
  IN  kids \cup UNION {DescendantsOf(d, k) : k \in kids}

AncestorsOf(d, n) == {a \in EntryNodes(d) : n \in DescendantsOf(d, a)}

\* document.getElementById('children-' + entryId): the first such element
\* in document order, 0 when there is none
getElementById(d, dom, entryId) ==
  LET els == {n \in DOMAIN dom.hidden : d.nodes[n].id = entryId}
  IN  IF els = {} THEN 0 ELSE CHOOSE n \in els : \A m \in els : n <= m

\* the document as the browser parses it: the containers carry the classes
\* generateEntry gave them; flat is the list of clones of plain mode
FreshDom(d) ==
  [mode |-> "structured",
   hidden |-> [n \in Containers(d) |-> d.nodes[n].childrenDiv = "hidden"],
   filtered |-> {},
   flat |-> <<>>]

NoHTML == [mode |-> "none", hidden |-> <<>>, filtered |-> {}, flat |-> <<>>]
NoItem == [expandedSections |-> <<>>, scrollPosition |-> 0,
           viewMode |-> "none", filterText |-> <<>>]

\* getStoredState
getStoredState(c) ==
  IF c.localStorage = NoItem
  THEN [expandedSections |-> <<>>, scrollPosition |-> 0,
        viewMode |-> "structured", filterText |-> <<>>]
  ELSE c.localStorage

\* the loop of saveState over querySelectorAll('.children'): the last
\* container with an id decides the value stored for that id
expandedSectionsOf(d, dom) ==
  LET ids == {d.nodes[n].id : n \in DOMAIN dom.hidden}
      last(id) == CHOOSE n \in DOMAIN dom.hidden :
                    /\ d.nodes[n].id = id
                    /\ \A m \in DOMAIN dom.hidden : d.nodes[m].id = id => m <= n
  IN  [id \in ids |-> ~dom.hidden[last(id)]]

\* saveState
saveState(d, c) ==
  [c EXCEPT !.localStorage =
     [expandedSections |-> expandedSectionsOf(d, c.dom),
      scrollPosition |-> c.scroll,
      viewMode |-> c.currentMode,
      filterText |-> c.filterInput]]

\* the first pass of applyFilter: does the entry match the filter text
Matches(d, n, filterText) ==
  \/ filterText = <<>>
  \/ includes(toLowerCase(getAttribute(escapeForDataAttribute(d.nodes[n].originalText))),
              filterText)

\* entry.querySelectorAll('.log-entry'): the entries nested in the element
\* of n; the flat clones of plain mode have had their children removed
NestedEntries(d, dom, n) ==
  IF dom.mode = "structured" THEN DescendantsOf(d, n) ELSE {}

\* applyFilter with a second pass that looks at the entry alone
applyFilterSelfOnly(d, c) ==
  LET filterText == toLowerCase(c.filterInput)
      shown == {n \in EntryNodes(d) : Matches(d, n, filterText)}
  IN  saveState(d, [c EXCEPT !.dom.filtered = EntryNodes(d) \ shown,
                             !.filteredCount = Cardinality(shown)])

\* applyFilter
applyFilterExpandsMatches(d, c) ==
  LET filterText == toLowerCase(c.filterInput)
      matchingEntries == {n \in EntryNodes(d) : Matches(d, n, filterText)}
      shown == {n \in EntryNodes(d) :
                  \/ n \in matchingEntries
                  \/ NestedEntries(d, c.dom, n) \cap matchingEntries # {}}
      opened == [n \in DOMAIN c.dom.hidden |->
                   IF filterText # <<>> /\ DescendantsOf(d, n) \cap matchingEntries # {}
                   THEN FALSE ELSE c.dom.hidden[n]]
  IN  saveState(d, [c EXCEPT !.dom.filtered = EntryNodes(d) \ shown,
                             !.dom.hidden = opened,
                             !.filteredCount = Cardinality(shown)])

applyFilterCountsMatches(d, c) ==
  LET filterText == toLowerCase(c.filterInput)
      matchingEntries == {n \in EntryNodes(d) : Matches(d, n, filterText)}
      shown == {n \in EntryNodes(d) :
                  \/ n \in matchingEntries
                  \/ NestedEntries(d, c.dom, n) \cap matchingEntries # {}}
  IN  saveState(d, [c EXCEPT !.dom.filtered = EntryNodes(d) \ shown,
                             !.filteredCount = Cardinality(matchingEntries)])

applyFilter(d, c) ==
  LET filterText == toLowerCase(c.filterInput)
      matchingEntries == {n \in EntryNodes(d) : Matches(d, n, filterText)}
      shown == {n \in EntryNodes(d) :
                  \/ n \in matchingEntries
                  \/ NestedEntries(d, c.dom, n) \cap matchingEntries # {}}
  IN  saveState(d, [c EXCEPT !.dom.filtered = EntryNodes(d) \ shown,
                             !.filteredCount = Cardinality(shown)])

\* collectEntriesFlat: the entries below an element, depth first
RECURSIVE collectEntriesFlatTopLevel(_, _)
collectEntriesFlatTopLevel(d, entries) ==
  IF entries = <<>> THEN <<>>
  ELSE <<Head(entries)>> \o collectEntriesFlatTopLevel(d, Tail(entries))

RECURSIVE collectEntriesFlat(_, _)
collectEntriesFlat(d, entries) ==
  IF entries = <<>> THEN <<>>
  ELSE <<Head(entries)>>
       \o (IF Head(entries) \in Containers(d)
           THEN collectEntriesFlat(d, d.nodes[Head(entries)].children)
           ELSE <<>>)
       \o collectEntriesFlat(d, Tail(entries))

\* createPlainView: keep the structured markup once, flatten, filter again
createPlainView(d, c) ==
  LET kept == IF c.originalStructuredHTML = NoHTML THEN c.dom
              ELSE c.originalStructuredHTML
      plain == [mode |-> "plain", hidden |-> <<>>, filtered |-> c.dom.filtered,
                flat |-> collectEntriesFlat(d, d.entries)]
  IN  applyFilter(d, [c EXCEPT !.originalStructuredHTML = kept, !.dom = plain])

\* the loop over state.expandedSections in restoreStructuredView
ApplyExpanded(d, dom, expandedSections) ==
  [dom EXCEPT !.hidden =
     [n \in DOMAIN dom.hidden |->
        IF /\ d.nodes[n].id \in DOMAIN expandedSections
           /\ getElementById(d, dom, d.nodes[n].id) = n
        THEN ~expandedSections[d.nodes[n].id]
        ELSE dom.hidden[n]]]

\* restoreStructuredView
restoreStructuredView(d, c) ==
  IF c.originalStructuredHTML = NoHTML THEN c
  ELSE LET state == getStoredState(c)
           restored == ApplyExpanded(d, c.originalStructuredHTML, state.expandedSections)
       IN  applyFilter(d, [c EXCEPT !.dom = restored])

\* applyViewMode
applyViewMode(d, c) ==
  IF c.currentMode = "plain" THEN createPlainView(d, c)
  ELSE restoreStructuredView(d, c)

\* toggleViewMode
toggleViewMode(d, c) ==
  LET flipped == [c EXCEPT !.currentMode = IF @ = "structured" THEN "plain" ELSE "structured"]
  IN  saveState(d, applyViewMode(d, flipped))

\* toggleExpand(btn, entryId)
toggleExpand(d, c, entryId) ==
  LET children == getElementById(d, c.dom, entryId)
  IN  saveState(d, [c EXCEPT !.dom.hidden[children] = ~@])

\* collapseAll
collapseAllNoSave(d, c) ==
  [c EXCEPT !.dom.hidden = [n \in DOMAIN c.dom.hidden |-> TRUE]]

collapseAll(d, c) ==
  saveState(d, [c EXCEPT !.dom.hidden = [n \in DOMAIN c.dom.hidden |-> TRUE]])

\* restoreState of the earlier script version: it re-applies the stored
\* filter, expanded sections and scroll position
restoreStateKeepAll(d, c) ==
  LET state == getStoredState(c)
      moded == applyViewMode(d, [c EXCEPT !.currentMode = state.viewMode])
      filtered == applyFilter(d, [moded EXCEPT !.filterInput = state.filterText])
  IN  [filtered EXCEPT !.dom = ApplyExpanded(d, filtered.dom, state.expandedSections),
                       !.scrollTarget = state.scrollPosition]

\* restoreState: the stored view mode is applied, the filter is cleared,
\* every container is collapsed, the scroll reset is scheduled
restoreState(d, c) ==
  LET state == getStoredState(c)
      moded == applyViewMode(d, [c EXCEPT !.currentMode = state.viewMode])
      filtered == applyFilter(d, [moded EXCEPT !.filterInput = <<>>])
  IN  [filtered EXCEPT !.dom.hidden = [n \in DOMAIN filtered.dom.hidden |-> TRUE],
                       !.scrollTarget = 0]

\* JSON.parse(event.data) followed by data.type: what the try block sees
EventData == {FileChangedData, PingData, "null", "not json"}
TypeOf(data) ==
  IF data = FileChangedData THEN [threw |-> FALSE, type |-> "fileChanged"]
  ELSE IF data = PingData THEN [threw |-> FALSE, type |-> "ping"]
  ELSE [threw |-> TRUE]

\* eventSource.onmessage: does the handler save the state and reload
ReloadsOnAnyEvent(data) == ~TypeOf(data).threw

ReloadsOn(data) ==
  LET parsed == TypeOf(data)
  IN  ~parsed.threw /\ parsed.type = "fileChanged"

\* the documents a page may be generated from
Tabs(k) == [i \in 1..k |-> Tab]
DocLines == {Tabs(k) \o body : k \in 0..MaxDocDepth, body \in Bodies}
\* generateEntry: what the markup of one entry holds: its id and original
\* text, the expand button, the row's click handler, the children container
generateEntryOpen(entry) ==
  LET hasChildren == Len(entry.children) > 0
  IN  [id |-> entry.id,
       originalText |-> entry.originalText,
       children |-> entry.children,
       expandBtn |-> IF hasChildren THEN "toggleExpand" ELSE "no-children",
       rowClickHandler |-> hasChildren,
       childrenDiv |-> IF hasChildren THEN "children" ELSE "none"]

generateEntry(entry) ==
  LET hasChildren == Len(entry.children) > 0
  IN  [id |-> entry.id,
       originalText |-> entry.originalText,
       children |-> entry.children,
       expandBtn |-> IF hasChildren THEN "toggleExpand" ELSE "no-children",
       rowClickHandler |-> hasChildren,
       childrenDiv |-> IF hasChildren THEN "hidden" ELSE "none"]

\* generateEntries: the markup of all entries, nested as the forest is
generateEntries(f) ==
  [nodes |-> [n \in 1..Len(f.nodes) |-> generateEntry(f.nodes[n])],
   entries |-> f.entries]
Docs == {generateEntries(parseContent(lines)) : lines \in SeqsUpTo(DocLines, MaxDocLines) \ {<<>>}}
FilterChars == {"a", "B"}
Filters == SeqsUpTo(FilterChars, MaxFilterLen)
ScrollOffsets == 0..MaxScroll

\* the page right after the document was parsed and the script has run,
\* at scroll offset y
FreshClient(d, stored, y) ==
  [currentMode |-> "structured",
   filterInput |-> <<>>,
   dom |-> FreshDom(d),
   originalStructuredHTML |-> NoHTML,
   localStorage |-> stored,
   scroll |-> y,
   scrollTarget |-> null,
   filteredCount |-> Len(d.nodes)]

\* every children container, in the DOM and in the kept structured markup,
\* is hidden
AllCollapsed(c) ==
  /\ \A n \in DOMAIN c.dom.hidden : c.dom.hidden[n]
  /\ \A n \in DOMAIN c.originalStructuredHTML.hidden : c.originalStructuredHTML.hidden[n]

\* is the row of entry n displayed (no ancestor container hidden, neither
\* the entry nor an ancestor filtered out)
RowDisplayed(d, dom, n) ==
  /\ n \notin dom.filtered
  /\ \A a \in AncestorsOf(d, n) :
       /\ a \notin dom.filtered
       /\ dom.mode = "structured" => ~dom.hidden[a]

ClientInit ==
  /\ TreeIdle /\ RenderIdle /\ DocIdle /\ SseIdle
  /\ serverAlive = TRUE
  /\ page = "loading"
  /\ doc \in Docs
  /\ client = FreshClient(doc, NoItem, 0)
  /\ reloadFrom = NoReload
  /\ beforePlain = NoFlags
  /\ lastOp = NoOp

\* window 'load': restoreState
Load ==
  /\ page = "loading"
  /\ page' = "ready"
  /\ client' = restoreState(doc, client)
  /\ UNCHANGED <<renderVars, treeVars, docVars, sseVars, serverAlive, lastOp, doc, reloadFrom, beforePlain>>

\* the timeout set by restoreState: window.scrollTo(0, target)
ScrollTimer ==
  /\ page = "ready"
  /\ client.scrollTarget # null
  /\ client' = [client EXCEPT !.scroll = client.scrollTarget, !.scrollTarget = null]
  /\ beforePlain' = NoFlags
  /\ UNCHANGED <<renderVars, treeVars, docVars, sseVars, serverAlive, lastOp, page, doc, reloadFrom>>

\* the user clicks the displayed row of an entry with children:
\* handleRowClick -> toggleExpand
RowClick(n) ==
  /\ page = "ready"
  /\ client.dom.mode = "structured"
  /\ doc.nodes[n].rowClickHandler
  /\ RowDisplayed(doc, client.dom, n)
  /\ client' = toggleExpand(doc, client, doc.nodes[n].id)
  /\ reloadFrom' = NoReload
  /\ beforePlain' = NoFlags
  /\ UNCHANGED <<renderVars, treeVars, docVars, sseVars, serverAlive, lastOp, page, doc>>

\* the user clicks Collapse All (the button is disabled in plain mode)
CollapseAllClick ==
  /\ page = "ready"
  /\ client.currentMode = "structured"
  /\ client' = collapseAll(doc, client)
  /\ reloadFrom' = NoReload
  /\ beforePlain' = NoFlags
  /\ UNCHANGED <<renderVars, treeVars, docVars, sseVars, serverAlive, lastOp, page, doc>>

\* the user edits the filter input, or clears it with Escape
FilterInput(text) ==
  /\ page = "ready"
  /\ text # client.filterInput
  /\ client' = applyFilter(doc, [client EXCEPT !.filterInput = text])
  /\ reloadFrom' = NoReload
  /\ beforePlain' = NoFlags
  /\ UNCHANGED <<renderVars, treeVars, docVars, sseVars, serverAlive, lastOp, page, doc>>

\* the user clicks the mode button: toggleViewMode
ModeToggleClick ==
  /\ page = "ready"
  /\ client' = toggleViewMode(doc, client)
  /\ beforePlain' = IF client.currentMode = "structured"
                    THEN [set |-> TRUE, hidden |-> client.dom.hidden,
                          list |-> beforePlain.list]
                    ELSE [beforePlain EXCEPT !.list = client.dom.flat]
  /\ reloadFrom' = NoReload
  /\ UNCHANGED <<renderVars, treeVars, docVars, sseVars, serverAlive, lastOp, page, doc>>

\* the user scrolls the page
ScrollTo(y) ==
  /\ page = "ready"
  /\ y # client.scroll
  /\ client' = [client EXCEPT !.scroll = y]
  /\ reloadFrom' = NoReload
  /\ beforePlain' = NoFlags
  /\ UNCHANGED <<renderVars, treeVars, docVars, sseVars, serverAlive, lastOp, page, doc>>

\* eventSource.onmessage for a frame with the given data
OnMessage(data) ==
  /\ page \in {"loading", "ready"}
  /\ IF ReloadsOn(data)
     THEN /\ client' = saveState(doc, client)
          /\ page' = "unloading"
          /\ reloadFrom' = [data |-> data,
                            viewMode |-> client.currentMode,
                            expanded |-> ~AllCollapsed(client),
                            scroll |-> client.scroll]
     ELSE UNCHANGED <<client, page, reloadFrom>>
  /\ beforePlain' = NoFlags
  /\ UNCHANGED <<renderVars, treeVars, docVars, sseVars, serverAlive, lastOp, doc>>

\* location.reload(): beforeunload saves the state, the page is discarded
\* and the document generated from the file as it is now is parsed; the
\* browser restores the scroll offset of the page it replaces
Unload(d) ==
  /\ page = "unloading"
  /\ page' = "loading"
  /\ doc' = d
  /\ client' = FreshClient(d, saveState(doc, client).localStorage, client.scroll)
  /\ beforePlain' = NoFlags
  /\ UNCHANGED <<renderVars, treeVars, docVars, sseVars, serverAlive, lastOp, reloadFrom>>

ClientNext ==
  \/ Load
  \/ ScrollTimer
  \/ \E n \in EntryNodes(doc) : RowClick(n)
  \/ CollapseAllClick
  \/ \E text \in Filters : FilterInput(text)
  \/ ModeToggleClick
  \/ \E y \in ScrollOffsets : ScrollTo(y)
  \/ \E data \in EventData : OnMessage(data)
  \/ \E d \in Docs : Unload(d)

SpecClient == ClientInit /\ [][ClientNext]_vars

\* the entries of the parsed tree that a filter text makes visible: those
\* that contain it, ignoring case, and those with such a descendant
ShownByRule(d, text) ==
  LET contains(n) == includes(toLowerCase(d.nodes[n].originalText), toLowerCase(text))
  IN  {n \in EntryNodes(d) : contains(n) \/ \E k \in DescendantsOf(d, n) : contains(k)}

\* C3: after applyFilter, in structured and in plain mode, an entry is
\* visible iff its rawText or the rawText of one of its descendants in the
\* parsed tree contains the filter text, ignoring case.
\* (The original claim; in plain mode the flat entries have no descendants.)
Cex_C3_FilterShowsAncestors ==
  page = "ready" =>
    EntryNodes(doc) \ client.dom.filtered = ShownByRule(doc, client.filterInput)

\* C4: once the reload triggered by an invalidation event has run
\* restoreState, every children container is collapsed and the view mode is
\* the one in effect when the event arrived, and once its scroll timer has
\* fired the scroll offset is 0 (as long as the user has not acted since).
Thm_C4_ReloadResetsView ==
  (page = "ready" /\ reloadFrom # NoReload) =>
    /\ AllCollapsed(client)
    /\ client.currentMode = reloadFrom.viewMode
    /\ client.scrollTarget = 0 \/ (client.scrollTarget = null /\ client.scroll = 0)

\* a reload completed, which started in plain mode from a scrolled page
\* with an expanded entry kept in the structured markup, or in structured
\* mode with an expanded entry
Wit_C4_ReloadResetsView ==
  /\ page = "ready"
  /\ reloadFrom # NoReload
  /\ reloadFrom.scroll > 0
  /\ reloadFrom.expanded
  /\ client.scrollTarget = null
  /\ Containers(doc) # {}

\* C5: switching structured -> plain -> structured leaves the collapsed
\* flag of every container as it was right before the switch to plain.
\* (The original claim; the markup kept at the first switch is restored.)
Cex_C5_ModeRoundTripLossless ==
  (page = "ready" /\ beforePlain.set /\ client.currentMode = "structured") =>
    client.dom.hidden = beforePlain.hidden

\* C7: the page starts a reload only for a fileChanged event, and when the
\* reload starts the stored ViewState is the view as it is at that moment.
Thm_C7_ReloadOnlyOnFileChanged ==
  /\ page = "unloading" =>
       /\ reloadFrom.data = FileChangedData
       /\ client.localStorage = [expandedSections |-> expandedSectionsOf(doc, client.dom),
                                 scrollPosition |-> client.scroll,
                                 viewMode |-> client.currentMode,
                                 filterText |-> client.filterInput]
  /\ reloadFrom # NoReload => reloadFrom.data = FileChangedData

\* a reload was started from a scrolled page in plain mode with a filter set
Wit_C7_ReloadOnlyOnFileChanged ==
  /\ page = "unloading"
  /\ client.scroll > 0
  /\ client.currentMode = "plain"
  /\ client.filterInput # <<>>


(***************************************************************************)
(* Expanding and collapsing the rows of a nested document.                  *)
(***************************************************************************)
NestLines == {Tabs(k) \o body : k \in 0..MaxNestDepth, body \in Bodies}
NestedDocs ==
  {generateEntries(parseContent(lines)) : lines \in SeqsUpTo(NestLines, MaxNestLines) \ {<<>>}}

ExpandInit ==
  /\ TreeIdle /\ RenderIdle /\ DocIdle /\ SseIdle
  /\ serverAlive = TRUE
  /\ page = "loading"
  /\ doc \in NestedDocs
  /\ client = FreshClient(doc, NoItem, 0)
  /\ reloadFrom = NoReload
  /\ beforePlain = NoFlags
  /\ lastOp = NoOp

ExpandNext ==
  \/ Load
  \/ \E n \in EntryNodes(doc) : RowClick(n)
  \/ CollapseAllClick
  \/ \E text \in Filters : FilterInput(text)
  \/ ModeToggleClick

SpecExpand == ExpandInit /\ [][ExpandNext]_vars

\* the persisted expanded map
Persisted(c) == c.localStorage.expandedSections

\* C18: in structured mode a click on the row of an entry with children
\* toggles the children container of that same entry, and the persisted
\* expanded value of its id is then the new visibility of that container,
\* also for an entry that shares its id with another entry.  (The original
\* claim; the container is looked up by id, and the first one with the id
\* is toggled.)
Cex_C18_ClickTogglesOwnContainer ==
  [][\A n \in EntryNodes(doc) :
       RowClick(n) =>
         /\ client'.dom.hidden[n] = ~client.dom.hidden[n]
         /\ doc.nodes[n].id \in DOMAIN Persisted(client')
         /\ Persisted(client')[doc.nodes[n].id] = ~client'.dom.hidden[n]]_vars

\* C19: toggleExpand on a node changes the collapsed flag of that node's
\* container only: the flags and the persisted expanded values of all other
\* nodes, its descendants included, stay as they were.  (The original claim;
\* for an entry that shares its id the container of another node changes.)
Cex_C19_ToggleTouchesOneNode ==
  [][\A n \in EntryNodes(doc) :
       RowClick(n) =>
         /\ \A m \in Containers(doc) \ {n} : client'.dom.hidden[m] = client.dom.hidden[m]
         /\ DOMAIN Persisted(client') = DOMAIN Persisted(client)
         /\ \A id \in DOMAIN Persisted(client) \ {doc.nodes[n].id} :
              Persisted(client')[id] = Persisted(client)[id]]_vars

\* C20: after collapseAll in structured mode every children container is
\* hidden and every persisted expanded value is false; in plain mode the
\* button is disabled, so that no visibility and no persisted value changes.
Thm_C20_CollapseAllCollapses ==
  /\ [][CollapseAllClick =>
          /\ client.currentMode = "structured"
          /\ Containers(doc) = DOMAIN client'.dom.hidden
          /\ \A n \in Containers(doc) : client'.dom.hidden[n]
          /\ DOMAIN Persisted(client') = {doc.nodes[n].id : n \in Containers(doc)}
          /\ \A id \in DOMAIN Persisted(client') : ~Persisted(client')[id]]_vars
  /\ [](client.currentMode = "plain" => ~ENABLED CollapseAllClick)

\* all containers of a document with two of them are hidden and stored as
\* collapsed, in structured mode, after they had both been expanded
Wit_C20_CollapseAllCollapses ==
  /\ page = "ready"
  /\ client.currentMode = "structured"
  /\ Cardinality(Containers(doc)) = 2
  /\ client.originalStructuredHTML # NoHTML
  /\ \A n \in Containers(doc) : ~client.originalStructuredHTML.hidden[n]
  /\ \A n \in Containers(doc) : client.dom.hidden[n]
  /\ \A id \in DOMAIN Persisted(client) : ~Persisted(client)[id]


\* C21: editing or clearing the filter, in either view mode, changes filter
\* visibility only: the collapsed flag of every container, in the page and
\* in the kept structured markup, and the persisted expanded map stay as
\* they were.
Thm_C21_FilterKeepsExpanded ==
  [][\A text \in Filters :
       FilterInput(text) =>
         /\ client'.dom.hidden = client.dom.hidden
         /\ client'.originalStructuredHTML.hidden = client.originalStructuredHTML.hidden
         /\ Persisted(client') = Persisted(client)
         /\ client'.currentMode = client.currentMode]_vars

\* an expanded container whose entry the filter has hidden since, stored as
\* expanded, next to a collapsed one
Wit_C21_FilterKeepsExpanded ==
  /\ page = "ready"
  /\ client.currentMode = "structured"
  /\ \E n \in Containers(doc) :
       /\ n \in client.dom.filtered
       /\ ~client.dom.hidden[n]
       /\ Persisted(client)[doc.nodes[n].id]
  /\ \E n \in Containers(doc) : client.dom.hidden[n]


\* the entries of the current view: all of them in structured mode, the
\* clones of the flat list in plain mode
ViewEntries(d, dom) ==
  IF dom.mode = "plain" THEN {k \in 1..Len(dom.flat) : dom.flat[k] \notin dom.filtered}
  ELSE EntryNodes(d) \ dom.filtered

\* C22: after every filter change and every mode toggle the displayed
\* filtered count is the number of entries of the current view that the
\* filter does not hide.
Thm_C22_CountIsVisibleEntries ==
  page = "ready" => client.filteredCount = Cardinality(ViewEntries(doc, client.dom))

\* a filter is set that leaves an entry visible only because a descendant
\* matches, and hides another entry
Wit_C22_CountIsVisibleEntries ==
  /\ page = "ready"
  /\ client.currentMode = "structured"
  /\ client.filterInput # <<>>
  /\ client.dom.filtered # {}
  /\ \E n \in EntryNodes(doc) \ client.dom.filtered :
       ~includes(toLowerCase(doc.nodes[n].originalText), toLowerCase(client.filterInput))
  /\ client.filteredCount = Cardinality(EntryNodes(doc)) - Cardinality(client.dom.filtered)

\* the expanded flag a node has in the live view: that of its container in
\* the page, in plain mode that of its container in the kept markup
LiveExpanded(c, n) ==
  IF c.dom.mode = "structured" THEN ~c.dom.hidden[n]
  ELSE ~c.originalStructuredHTML.hidden[n]

\* the persisted expanded value of an id; an id absent from the map counts
\* as collapsed
PersistedExpanded(c, id) == id \in DOMAIN Persisted(c) /\ Persisted(c)[id]

\* C23: after every expand/collapse, filter edit, mode toggle and
\* collapse-all the persisted ViewState is the live one: view mode, filter
\* text, and the expanded flag of every node with children, in structured
\* and in plain mode.  (The original claim; in plain mode the stored map is
\* empty.)
Cex_C23_PersistedIsLive ==
  page = "ready" =>
    /\ client.localStorage.viewMode = client.currentMode
    /\ client.localStorage.filterText = client.filterInput
    /\ \A n \in Containers(doc) :
         PersistedExpanded(client, doc.nodes[n].id) = LiveExpanded(client, n)

\* C24: on page load the persisted filter text is read back and applied
\* again, so that the filter after a reload is the one that was persisted.
\* (The original claim; restoreState clears the filter.)
Cex_C24_FilterRestoredOnLoad ==
  [][Load => client'.filterInput = getStoredState(client).filterText]_vars

\* C25: the plain view lists every entry of the forest exactly once, in
\* depth-first order (the order of the file), and the list after a switch
\* plain -> structured -> plain is the list before it.
Thm_C25_PlainListsEveryEntry ==
  client.dom.mode = "plain" =>
    /\ \A n \in EntryNodes(doc) :
         Cardinality({k \in 1..Len(client.dom.flat) : client.dom.flat[k] = n}) = 1
    /\ Len(client.dom.flat) = Len(doc.nodes)
    /\ IsIncreasing(client.dom.flat)
    /\ client.dom.flat = PreOrder(doc, doc.entries)
    /\ beforePlain.list # <<>> => client.dom.flat = beforePlain.list

\* plain mode entered again, straight after a switch back to structured, for
\* a document with two roots and a nested entry
Wit_C25_PlainListsEveryEntry ==
  /\ page = "ready"
  /\ client.dom.mode = "plain"
  /\ beforePlain.list # <<>>
  /\ Len(doc.entries) >= 2
  /\ Containers(doc) # {}

\* C28: in the generated document an entry has a clickable expand button,
\* a row click handler and a children container iff it has children, and
\* every container is rendered hidden, whatever the persisted map holds.
Thm_C28_ControlsIffChildren ==
  page = "loading" =>
    \A n \in EntryNodes(doc) :
      /\ (doc.nodes[n].expandBtn = "toggleExpand") = (doc.nodes[n].children # <<>>)
      /\ doc.nodes[n].rowClickHandler = (doc.nodes[n].children # <<>>)
      /\ (n \in DOMAIN client.dom.hidden) = (doc.nodes[n].children # <<>>)
      /\ n \in DOMAIN client.dom.hidden => client.dom.hidden[n]

\* a document parsed after a reload, with a leaf and with a container whose
\* id the persisted map does not hold
Wit_C28_ControlsIffChildren ==
  /\ page = "loading"
  /\ client.localStorage # NoItem
  /\ \E n \in Containers(doc) :
       /\ doc.nodes[n].id \notin DOMAIN Persisted(client)
       /\ client.dom.hidden[n]
  /\ \E n \in EntryNodes(doc) : doc.nodes[n].children = <<>>
  /\ \E id \in DOMAIN Persisted(client) : Persisted(client)[id]


(***************************************************************************)
(* HtmlGenerator.parseAnsiColors.                                           *)
(***************************************************************************)
colorMap ==
  "30" :> "black" @@ "31" :> "red" @@ "32" :> "green" @@ "33" :> "yellow"
  @@ "34" :> "blue" @@ "35" :> "magenta" @@ "36" :> "cyan" @@ "37" :> "white"
  @@ "90" :> "gray" @@ "91" :> "lightred" @@ "92" :> "lightgreen"
  @@ "93" :> "lightyellow" @@ "94" :> "lightblue" @@ "95" :> "lightmagenta"
  @@ "96" :> "lightcyan" @@ "97" :> "lightwhite"

cssColorMap ==
  "black" :> "#000000" @@ "red" :> "#CC0000" @@ "green" :> "#00CC00"
  @@ "yellow" :> "#CCCC00" @@ "blue" :> "#0000CC" @@ "magenta" :> "#CC00CC"
  @@ "cyan" :> "#00CCCC" @@ "white" :> "#CCCCCC" @@ "gray" :> "#808080"
  @@ "lightred" :> "#FF6666" @@ "lightgreen" :> "#66FF66"
  @@ "lightyellow" :> "#FFFF66" @@ "lightblue" :> "#6666FF"
  @@ "lightmagenta" :> "#FF66FF" @@ "lightcyan" :> "#66FFFF"
  @@ "lightwhite" :> "#FFFFFF"

\* the parts text.split(/(\u001b\[[0-9;]*m)/) yields: a piece of text, or an
\* escape sequence ESC [ codes m, of which body holds the codes: numbers
\* (one character each) and semicolons
AnsiParts ==
  {[esc |-> TRUE, body |-> codes] :
     codes \in {<<>>, <<"0">>, <<"31">>, <<"32">>, <<"1">>, <<";">>,
                <<"1", ";", "31">>, <<"31", ";", "0">>}}
  \cup {[esc |-> FALSE, body |-> <<"a">>]}

\* codes[1].split(';'): the codes between the semicolons, '' for none
RECURSIVE SplitCodes(_)
SplitCodes(codes) ==
  IF codes = <<>> THEN <<"">>
  ELSE IF Head(codes) = ";" THEN <<"">> \o SplitCodes(Tail(codes))
  ELSE IF Tail(codes) = <<>> THEN <<Head(codes)>>
  ELSE <<Head(codes)>> \o SplitCodes(Tail(Tail(codes)))

\* the output is a sequence of items: a closing tag, an opening tag with its
\* color, or a character of text

\* the body of the loop over codeNumbers
ApplyCodeNesting(st, code) ==
  IF code = "0" \/ code = ""
  THEN [st EXCEPT !.result = IF st.inSpan THEN Append(@, [tag |-> "</span>", value |-> ""]) ELSE @,
                  !.inSpan = FALSE,
                  !.currentColor = "null"]
  ELSE IF code \in DOMAIN colorMap
  THEN [st EXCEPT !.result = Append(@, [tag |-> "<span>", value |-> cssColorMap[colorMap[code]]]),
                  !.currentColor = cssColorMap[colorMap[code]],
                  !.inSpan = TRUE]
  ELSE st

ApplyCode(st, code) ==
  IF code = "0" \/ code = ""
  THEN [st EXCEPT !.result = IF st.inSpan THEN Append(@, [tag |-> "</span>", value |-> ""]) ELSE @,
                  !.inSpan = FALSE,
                  !.currentColor = "null"]
  ELSE IF code \in DOMAIN colorMap
  THEN [st EXCEPT !.result = Append(IF st.inSpan THEN Append(@, [tag |-> "</span>", value |-> ""]) ELSE @,
                                    [tag |-> "<span>", value |-> cssColorMap[colorMap[code]]]),
                  !.currentColor = cssColorMap[colorMap[code]],
                  !.inSpan = TRUE]
  ELSE st

RECURSIVE ApplyCodes(_, _)
ApplyCodes(st, codeNumbers) ==
  IF codeNumbers = <<>> THEN st
  ELSE ApplyCodes(ApplyCode(st, Head(codeNumbers)), Tail(codeNumbers))

\* one iteration of the loop over parts; `codes && codes[1]` is false for
\* the empty code string
AnsiPart(st, part) ==
  IF part.esc
  THEN IF part.body # <<>> THEN ApplyCodes(st, SplitCodes(part.body)) ELSE st
  ELSE [st EXCEPT !.result = @ \o [k \in 1..Len(part.body) |-> [tag |-> "text", value |-> part.body[k]]]]

\* after the loop: close any remaining open span, return result
AnsiFinish(st) ==
  [st EXCEPT !.result = IF st.inSpan THEN Append(@, [tag |-> "</span>", value |-> ""]) ELSE @,
             !.returned = TRUE]

\* the loop body, for the next part of the text
AnsiNextPart(part) ==
  /\ ~ansi.returned
  /\ Len(parts) < MaxParts
  /\ parts' = Append(parts, part)
  /\ ansi' = AnsiPart(ansi, part)
  /\ UNCHANGED <<attr, stream, treeVars, docVars, sseVars, clientVars, serverAlive, lastOp>>

AnsiReturn ==
  /\ ~ansi.returned
  /\ ansi' = AnsiFinish(ansi)
  /\ UNCHANGED <<parts, attr, stream, treeVars, docVars, sseVars, clientVars, serverAlive, lastOp>>

AnsiNext ==
  \/ \E part \in AnsiParts : AnsiNextPart(part)
  \/ AnsiReturn

SpecAnsi == TreeInit /\ [][AnsiNext]_vars

\* a reset sequence: ESC[0m or the empty ESC[m
IsReset(part) == part.esc /\ part.body \in {<<"0">>, <<>>}

\* C26: a reset sequence, ESC[0m or the empty ESC[m, met while a colored
\* span is open closes that span, so that the text after it is outside any
\* span.  (The original claim; the empty ESC[m is skipped by the test
\* `codes && codes[1]`.)
Cex_C26_ResetClosesSpan ==
  [][\A part \in AnsiParts :
       (AnsiNextPart(part) /\ IsReset(part) /\ ansi.inSpan) =>
         /\ ~ansi'.inSpan
         /\ ansi'.result = Append(ansi.result, [tag |-> "</span>", value |-> ""])]_vars

\* the number of spans open after the first k items of the output
RECURSIVE OpenAfter(_, _)
OpenAfter(result, k) ==
  IF k = 0 THEN 0
  ELSE OpenAfter(result, k - 1)
       + (IF result[k].tag = "<span>" THEN 1 ELSE IF result[k].tag = "</span>" THEN -1 ELSE 0)

\* C27: at every point of the output at most one colored span is open, the
\* returned output has as many closing as opening tags, and no escape
\* sequence, recognized or not, appears in the output.
Thm_C27_SpansBalanced ==
  /\ \A k \in 0..Len(ansi.result) : OpenAfter(ansi.result, k) \in {0, 1}
  /\ ~ansi.returned => OpenAfter(ansi.result, Len(ansi.result)) = (IF ansi.inSpan THEN 1 ELSE 0)
  /\ ansi.returned => OpenAfter(ansi.result, Len(ansi.result)) = 0
  /\ \A k \in 1..Len(ansi.result) :
       \/ ansi.result[k] = [tag |-> "</span>", value |-> ""]
       \/ ansi.result[k] \in {[tag |-> "<span>", value |-> cssColorMap[c]] : c \in DOMAIN cssColorMap}
       \/ ansi.result[k] = [tag |-> "text", value |-> "a"]
  /\ Len(SelectSeq(ansi.result, LAMBDA item : item.tag = "text"))
       = Len(SelectSeq(parts, LAMBDA part : ~part.esc))

\* a returned output for a text with a color directly after another color,
\* an unrecognized sequence, and a span left open at the end of the text
Wit_C27_SpansBalanced ==
  /\ ansi.returned
  /\ ansi.inSpan
  /\ Len(parts) = MaxParts
  /\ parts[1] = [esc |-> TRUE, body |-> <<"31">>]
  /\ parts[2] = [esc |-> TRUE, body |-> <<"32">>]
  /\ parts[3] = [esc |-> TRUE, body |-> <<"1">>]
  /\ parts[4] = [esc |-> FALSE, body |-> <<"a">>]
  /\ Len(ansi.result) = 5


(***************************************************************************)
(* HtmlGenerator.escapeForDataAttribute and the data-original-text          *)
(* attribute of the copy button, as the browser reads it back.              *)
(***************************************************************************)
\* the texts rendered: they hold both quotes, & and a literal "&amp;"
AttrTexts ==
  UNION {[1..k -> {"&", "a", "m", "p", ";", "\"", "'"}] : k \in 0..MaxAttrLen}

\* generateEntry renders the copy button of an entry with this originalText,
\* and the page reads the attribute back
RenderAttr(text) ==
  /\ attr' = [rawText |-> text,
              markup |-> escapeForDataAttribute(text),
              value |-> getAttribute(escapeForDataAttribute(text)),
              rendered |-> TRUE]
  /\ UNCHANGED <<parts, ansi, stream, treeVars, docVars, sseVars, clientVars, serverAlive, lastOp>>

\* one rendering per behaviour
AttrNext ==
  /\ ~attr.rendered
  /\ \E text \in AttrTexts : RenderAttr(text)

SpecAttr == TreeInit /\ [][AttrNext]_vars

\* C29: decoding the attribute value written by escapeForDataAttribute gives
\* back exactly rawText, for every rawText.
Thm_C29_AttributeRoundTrip ==
  attr.rendered => attr.value = attr.rawText

\* a text that holds a literal character reference and both quotes
Wit_C29_AttributeRoundTrip ==
  /\ attr.rendered
  /\ attr.rawText = <<"&", "a", "m", "p", ";">>
  /\ attr.markup = <<"&", "a", "m", "p", ";", "a", "m", "p", ";">>
  /\ attr.value = attr.rawText


(***************************************************************************)
(* One browser tab against the server: the document request, the script's  *)
(* setupFileWatcher, the file watcher and the event stream.  The document  *)
(* is represented by the version of the file it was generated from.        *)
(***************************************************************************)
\* req.on('close') for every connection in S: clearInterval and delete
CloseConnections(S) ==
  /\ open' = open \ S
  /\ timers' = timers \ S
  /\ sseClients' = SelectSeq(sseClients, LAMBDA c : c \notin S)
  /\ outbox' = [c \in Conns |-> IF c \in S THEN <<>> ELSE outbox[c]]

\* GET /: the server generates the document from the file as it is now, the
\* tab shows it, and the script at its end is about to run
LiveGetRoot ==
  /\ stream.navigating
  /\ stream' = [stream EXCEPT !.docVersion = stream.fileVersion,
                              !.navigating = FALSE,
                              !.scriptPending = TRUE]
  /\ UNCHANGED <<parts, ansi, attr, treeVars, docVars, sseVars, clientVars, serverAlive, lastOp>>

\* setupFileWatcher, called by the script or by a retry timeout:
\* new EventSource('/events'), and the server registers connection c
LiveSetup(c) ==
  /\ ~stream.navigating
  /\ stream.scriptPending \/ stream.retryTimers > 0
  /\ c \notin open
  /\ open' = open \cup {c}
  /\ timers' = timers \cup {c}
  /\ sseClients' = Append(sseClients, c)
  /\ stream' = IF stream.scriptPending
                THEN [stream EXCEPT !.scriptPending = FALSE, !.sources = @ \cup {c}]
                ELSE [stream EXCEPT !.retryTimers = @ - 1, !.sources = @ \cup {c}]
  /\ UNCHANGED <<parts, ansi, attr, treeVars, docVars, outbox, clientVars, serverAlive, lastOp>>

\* the file is written and the watcher's 'change' callback runs
LiveFileChange ==
  /\ stream.fileVersion < MaxChanges
  /\ \A c \in Range(sseClients) : Len(outbox[c]) < MaxOutbox
  /\ stream' = [stream EXCEPT !.fileVersion = @ + 1]
  /\ LET st == notifyClients(sseClients, outbox, {})
     IN  /\ sseClients' = st.clients
         /\ outbox' = st.outbox
  /\ cachedHtml' = null
  /\ UNCHANGED <<parts, ansi, attr, treeVars, logFilePath, file, response, timers, open,
                 clientVars, serverAlive, lastOp>>

\* the keep-alive interval of connection c fires
LivePing(c) ==
  /\ c \in timers
  /\ Len(outbox[c]) < MaxOutbox
  /\ outbox' = [outbox EXCEPT ![c] = Append(@, PingData)]
  /\ UNCHANGED <<renderVars, treeVars, docVars, sseClients, timers, open, clientVars,
                 serverAlive, lastOp>>

\* eventSource.onmessage for the oldest frame of connection c; on
\* location.reload() the tab is discarded, which closes its connections and
\* drops its timeouts, and the document is requested again
LiveDeliver(c) ==
  /\ ~stream.navigating
  /\ c \in stream.sources
  /\ outbox[c] # <<>>
  /\ IF ReloadsOn(Head(outbox[c]))
     THEN /\ stream' = [stream EXCEPT !.navigating = TRUE,
                                      !.scriptPending = FALSE,
                                      !.sources = {},
                                      !.retryTimers = 0]
          /\ CloseConnections(stream.sources)
     ELSE /\ outbox' = [outbox EXCEPT ![c] = Tail(@)]
          /\ UNCHANGED <<stream, sseClients, timers, open>>
  /\ UNCHANGED <<parts, ansi, attr, treeVars, docVars, clientVars, serverAlive, lastOp>>

\* the connection of one of the tab's EventSources is lost: the server's
\* 'close' handler runs, and eventSource.onerror sets a timeout for
\* setupFileWatcher without closing the EventSource.  After a fatal error
\* the EventSource is closed; otherwise the browser reconnects it, and the
\* server registers the connection again.
LiveStreamError(c, fatal) ==
  /\ ~stream.navigating
  /\ c \in stream.sources
  /\ stream.errors < MaxErrors
  /\ stream' = [stream EXCEPT !.errors = @ + 1,
                              !.retryTimers = @ + 1,
                              !.sources = IF fatal THEN @ \ {c} ELSE @]
  /\ IF fatal
     THEN CloseConnections({c})
     ELSE /\ sseClients' = Append(DeleteClient(sseClients, c), c)
          /\ outbox' = [outbox EXCEPT ![c] = <<>>]
          /\ UNCHANGED <<timers, open>>
  /\ UNCHANGED <<parts, ansi, attr, treeVars, docVars, clientVars, serverAlive, lastOp>>

\* the steps of a tab whose connections do not fail
LiveSteps ==
  \/ LiveGetRoot
  \/ \E c \in Conns : LiveSetup(c)
  \/ LiveFileChange
  \/ \E c \in Conns : LivePing(c)
  \/ \E c \in Conns : LiveDeliver(c)

LiveNext ==
  \/ LiveSteps
  \/ \E c \in Conns, fatal \in BOOLEAN : LiveStreamError(c, fatal)

SpecLive == TreeInit /\ [][LiveNext]_vars

\* the server answers requests, the script and its timeouts run, and the
\* browser dispatches the events it received; nothing makes the file change
LiveFairness ==
  /\ WF_vars(LiveGetRoot)
  /\ \A c \in Conns : WF_vars(LiveSetup(c))
  /\ \A c \in Conns : WF_vars(LiveDeliver(c))

SpecLiveFair == TreeInit /\ [][LiveSteps]_vars /\ LiveFairness

\* C33: if the file changes after the document shown by a viewer was
\* generated then, the viewer's connections not failing, that viewer
\* eventually shows a document generated after the change, whatever the
\* interleaving of document request, registration and file change.  (The
\* original claim; a change between the generation of the document and the
\* registration of the tab's event stream is never announced to the tab.)
Cex_C33_ChangeReachesViewer ==
  \A v \in 1..MaxChanges :
    (stream.fileVersion = v) ~> (stream.docVersion >= v)

\* C35: a page holds at most one event-stream connection, open or scheduled
\* to be opened, at any time, also after stream errors and reconnects.  (The
\* original claim; onerror schedules a new EventSource next to the one the
\* browser reconnects.)
Cex_C35_OneStreamPerPage ==
  Cardinality(stream.sources) + stream.retryTimers
    + (IF stream.scriptPending THEN 1 ELSE 0) <= 1


(***************************************************************************)
(* The client script of src/log_viewer/htmlGenerator.js (the version whose *)
(* restoreState re-applies the stored filter and expanded sections).  Its  *)
(* getStoredState, saveState, toggleExpand, handleRowClick and markup are  *)
(* those of the script above.                                              *)
(***************************************************************************)
\* applyFilter: originalText is read from the copy button's onclick
\* attribute with /copyToClipboard\('(.*)'\)/, which does not match the
\* attribute generateEntry writes, so originalText stays ''
applyFilterOld(d, c) ==
  LET filterText == toLowerCase(c.filterInput)
      originalText == <<>>
      shown == {n \in EntryNodes(d) :
                  filterText = <<>> \/ includes(toLowerCase(originalText), filterText)}
  IN  saveState(d, [c EXCEPT !.dom.filtered = EntryNodes(d) \ shown,
                             !.filteredCount = Cardinality(shown)])

\* createPlainView
createPlainViewOld(d, c) ==
  LET kept == IF c.originalStructuredHTML = NoHTML THEN c.dom
              ELSE c.originalStructuredHTML
      plain == [mode |-> "plain", hidden |-> <<>>, filtered |-> c.dom.filtered,
                flat |-> collectEntriesFlat(d, d.entries)]
  IN  applyFilterOld(d, [c EXCEPT !.originalStructuredHTML = kept, !.dom = plain])

\* restoreStructuredView
restoreStructuredViewOld(d, c) ==
  IF c.originalStructuredHTML = NoHTML THEN c
  ELSE LET state == getStoredState(c)
           restored == ApplyExpanded(d, c.originalStructuredHTML, state.expandedSections)
       IN  applyFilterOld(d, [c EXCEPT !.dom = restored])

\* applyViewMode
applyViewModeOld(d, c) ==
  IF c.currentMode = "plain" THEN createPlainViewOld(d, c)
  ELSE restoreStructuredViewOld(d, c)

\* restoreState: the state is read once; the view mode, then the filter
\* text when there is one, then the expanded sections are applied to the
\* DOM, and the scroll is scheduled
restoreStateOld(d, c) ==
  LET state == getStoredState(c)
      moded == applyViewModeOld(d, [c EXCEPT !.currentMode = state.viewMode])
      filtered == IF state.filterText # <<>>
                  THEN applyFilterOld(d, [moded EXCEPT !.filterInput = state.filterText])
                  ELSE [moded EXCEPT !.filteredCount =
                                        Cardinality(EntryNodes(d) \ moded.dom.filtered)]
  IN  [filtered EXCEPT !.dom = ApplyExpanded(d, filtered.dom, state.expandedSections),
                       !.scrollTarget = state.scrollPosition]

\* window 'load': restoreState
LoadOld ==
  /\ page = "loading"
  /\ page' = "ready"
  /\ client' = restoreStateOld(doc, client)
  /\ UNCHANGED <<renderVars, treeVars, docVars, sseVars, serverAlive, lastOp, doc, reloadFrom, beforePlain>>

\* the user edits the filter input
FilterInputOld(text) ==
  /\ page = "ready"
  /\ text # client.filterInput
  /\ client' = applyFilterOld(doc, [client EXCEPT !.filterInput = text])
  /\ UNCHANGED <<renderVars, treeVars, docVars, sseVars, serverAlive, lastOp, page, doc, reloadFrom, beforePlain>>

\* the user clicks the mode button: toggleViewMode
ModeToggleClickOld ==
  /\ page = "ready"
  /\ client' = saveState(doc, applyViewModeOld(doc,
                  [client EXCEPT !.currentMode = IF @ = "structured" THEN "plain" ELSE "structured"]))
  /\ UNCHANGED <<renderVars, treeVars, docVars, sseVars, serverAlive, lastOp, page, doc, reloadFrom, beforePlain>>

\* eventSource.onmessage for a fileChanged event: saveState and
\* location.reload(); beforeunload saves again, and the document generated
\* from the unchanged file is parsed.  lastOp keeps the view that was left.
ReloadOld ==
  /\ page = "ready"
  /\ ReloadsOn(FileChangedData)
  /\ page' = "loading"
  /\ client' = FreshClient(doc, saveState(doc, saveState(doc, client)).localStorage, client.scroll)
  /\ lastOp' = [op |-> "Reload",
                viewMode |-> client.currentMode,
                filterInput |-> client.filterInput,
                hidden |-> client.dom.hidden,
                persisted |-> saveState(doc, client).localStorage.expandedSections]
  /\ UNCHANGED <<renderVars, treeVars, docVars, sseVars, serverAlive, doc, reloadFrom, beforePlain>>

SpecOld ==
  ExpandInit /\ [][\/ LoadOld
                   \/ \E n \in EntryNodes(doc) : RowClick(n)
                   \/ \E text \in Filters : FilterInputOld(text)
                   \/ ModeToggleClickOld
                   \/ ReloadOld]_vars

\* the page after the load, switched back to structured if it is in plain mode
InStructured(d, c) ==
  IF c.currentMode = "structured" THEN c
  ELSE saveState(d, applyViewModeOld(d, [c EXCEPT !.currentMode = "structured"]))

\* C39: in the script of src/log_viewer/htmlGenerator.js, persisting the
\* state and reloading the unchanged file, in structured or in plain mode,
\* restores the view: every entry whose id is in the persisted expanded map
\* is shown expanded or collapsed as it was before the reload (after
\* switching back to structured if needed), and the filter text is the one
\* in effect before the reload.  (The original claim; of two entries with
\* the same id the map keeps one value, which is applied to the first.)
Cex_C39_ReloadRestoresView ==
  [][(LoadOld /\ lastOp.op = "Reload") =>
       /\ client'.filterInput = lastOp.filterInput
       /\ client'.currentMode = lastOp.viewMode
       /\ \A n \in DOMAIN lastOp.hidden :
            doc.nodes[n].id \in DOMAIN lastOp.persisted =>
              InStructured(doc, client').dom.hidden[n] = lastOp.hidden[n]]_vars

\* the same restricted to the entries whose id no other entry has, which
\* holds
ReloadRestoresUniqueIds ==
  [][(LoadOld /\ lastOp.op = "Reload") =>
       /\ client'.filterInput = lastOp.filterInput
       /\ client'.currentMode = lastOp.viewMode
       /\ \A n \in DOMAIN lastOp.hidden :
            (/\ doc.nodes[n].id \in DOMAIN lastOp.persisted
             /\ \A m \in Containers(doc) \ {n} : doc.nodes[m].id # doc.nodes[n].id) =>
              InStructured(doc, client').dom.hidden[n] = lastOp.hidden[n]]_vars

====
